---------------------------- MODULE Spec2Model ----------------------------
(***************************************************************************)
(* Model of the hierarchy-flattening processor of common-core-mcp          *)
(* (src/tools/pinecone_processor.py).                                      *)
(*                                                                         *)
(* A tree is the dict standard_set.standards, kept as the sequence of its  *)
(* values in the dict's iteration order; the key of every entry is the id  *)
(* of its node (the StandardSet format keys every standard by its GUID).   *)
(* parentId is None, the id of a node, or an id no node of the tree has.   *)
(***************************************************************************)
EXTENDS Integers, Sequences, FiniteSets, TLC

\* ------------------------------------------------------------------ bounds
\* Largest number of nodes of a tree (ids are 1..MaxNodes).
MaxNodes == 3
\* Longest string of an education_levels list, and longest such list.
MaxLevelLen == 3
MaxLevels == 2
\* Passes of one education_levels value through the validator.
MaxPasses == 2
\* Largest max_retries passed to exponential_backoff_retry.
MaxRetries == 8
\* Sibling positions are 1..MaxPos.
MaxPos == 3
\* process_standard_set calls made on one tree.
MaxCalls == 2

\* ------------------------------------------------------------------ values
\* Python's None, as a parentId and as a key of parent_to_children.
None == 0
Ids == 1..MaxNodes
\* An id that is the key of no tree: a parentId that always dangles.
DanglingId == MaxNodes + 1
ParentRefs == {None} \cup Ids \cup {DanglingId}
Positions == 1..MaxPos

\* Python's None where a str | None field holds it; no string of the domains
\* below equals it.
NoneStr == "None"

\* A value that Python takes for false in `if value:`.
Falsy(value) == value = NoneStr \/ value = ""

\* Standard.model_dump(): the fields of a standard the processor reads.  The
\* sets drawn here vary in hierarchy and position; their text fields are those
\* of one standard without notation or label.
Standard ==
    [id : Ids, parentId : ParentRefs, position : Positions, depth : {0},
     statementNotation : {NoneStr}, description : {"Math"},
     statementLabel : {NoneStr}, asnIdentifier : {NoneStr}]

\* standard_set.document: id and valid are Optional[str].
Document == [id : {NoneStr, "D1"}, valid : {NoneStr, "2010"}]

\* A document that carries both.
FullDocument == [id |-> "D1", valid |-> "2010"]

\* A standard of a set whose standards all share one position.
UnorderedStandard == {s \in Standard : s.position = 1}

\* The keys of the dict standards are the ids of its values, so no id occurs
\* twice.
DistinctIds(t) == \A i, j \in DOMAIN t : i # j => t[i].id # t[j].id

VARIABLES
    tree,                \* the caller's standard_set.standards
    id_to_standard,      \* self.id_to_standard
    parent_to_children,  \* self.parent_to_children
    leaf_nodes,          \* self.leaf_nodes
    root_nodes,          \* self.root_nodes
    pc,                  \* position inside process_standard_set
    records,             \* the local list `records` of process_standard_set
    calls,               \* process_standard_set calls that have returned
    result,              \* the list returned by the last call
    first,               \* the list returned by the first call
    walk,                \* the locals of a find_root_id / build_ordered_ancestors call
    document,            \* the caller's standard_set.document
    error,               \* the exception that ended the call, "none" without one
    ret,                 \* the last direct call of a helper and what it returned
    files,               \* data.json and processed.json of one standard set
    save,                \* position inside process_and_save
    to_upload,           \* the PineconeRecord handed to PineconeClient
    levels,              \* an education_levels value and its passes through the validator
    retry,               \* the locals of an exponential_backoff_retry call
    upsert,              \* the locals of a batch_upsert call and what it has sent
    tool,                \* a call of a tool implementation (lookup, search) and its end
    other,               \* another tree the processor has processed in between
    limiter,             \* _request_timestamps, the clock, and when requests went out
    request,             \* the locals of a _make_request call
    cache,               \* a cached fetch: its arguments, locals and cache file
    command              \* the pinecone-upload command: its sets and counters

\* The variables of the Pinecone upload, of the tools and of the API
\* client, and the tree of an interleaved call.
apiVars == <<upsert, tool, other, limiter, request, cache, command>>

\* The variables of the model classes and of the client.
clientVars == <<to_upload, levels, retry, apiVars>>

\* The variables no step of the processor touches.
others == <<ret, files, save, clientVars>>

vars == <<tree, id_to_standard, parent_to_children, leaf_nodes, root_nodes,
          pc, records, calls, result, first, walk, document, error, others>>

\* ------------------------------------------------------- relationship maps
Keys(standards) == {standards[i].id : i \in DOMAIN standards}

Get(standards, k) == standards[CHOOSE i \in DOMAIN standards : standards[i].id = k]

\* The position of key k in the dict's iteration order.
IndexOf(standards, k) == CHOOSE i \in DOMAIN standards : standards[i].id = k

_build_id_to_standard_map(standards) ==
    [k \in Keys(standards) |-> Get(standards, k)]

\* The (position, std_id) tuples appended to parent_map[p], in iteration order.
RECURSIVE Grouped(_, _)
Grouped(standards, p) ==
    IF standards = <<>> THEN <<>>
    ELSE LET rest == Grouped(SubSeq(standards, 1, Len(standards) - 1), p)
             std  == standards[Len(standards)]
         IN  IF std.parentId = p
             THEN Append(rest, <<std.position, std.id>>)
             ELSE rest

\* Mutant: sorted(children) without the key, which orders equal positions by
\* std_id instead of keeping their iteration order.
RECURSIVE InsertByTuple(_, _)
InsertByTuple(sorted, x) ==
    IF sorted = <<>> THEN <<x>>
    ELSE LET last == sorted[Len(sorted)]
         IN  IF last[1] < x[1] \/ (last[1] = x[1] /\ last[2] <= x[2])
             THEN Append(sorted, x)
             ELSE Append(InsertByTuple(SubSeq(sorted, 1, Len(sorted) - 1), x), last)

\* Insert x after every element whose key is <= its own: a stable insertion.
RECURSIVE InsertByKey(_, _)
InsertByKey(sorted, x) ==
    IF sorted = <<>> THEN <<x>>
    ELSE IF sorted[Len(sorted)][1] <= x[1]
         THEN Append(sorted, x)
         ELSE Append(InsertByKey(SubSeq(sorted, 1, Len(sorted) - 1), x),
                     sorted[Len(sorted)])

\* sorted(children, key=lambda x: x[0]): ascending, stable.
RECURSIVE SortedByPosition(_)
SortedByPosition(children) ==
    IF children = <<>> THEN <<>>
    ELSE InsertByKey(SortedByPosition(SubSeq(children, 1, Len(children) - 1)),
                     children[Len(children)])

SecondOfEach(pairs) == [i \in DOMAIN pairs |-> pairs[i][2]]

\* Mutant: parent_map starts as self.parent_to_children instead of {}, so a
\* second build on the same processor appends to the lists of the first.
_build_parent_to_children_map_accumulating(standards) ==
    LET parents == {standards[i].parentId : i \in DOMAIN standards}
    IN  [p \in DOMAIN parent_to_children \cup parents |->
            (IF p \in DOMAIN parent_to_children THEN parent_to_children[p] ELSE <<>>)
            \o (IF p \in parents
                THEN SecondOfEach(SortedByPosition(Grouped(standards, p)))
                ELSE <<>>)]

_build_parent_to_children_map(standards) ==
    [p \in {standards[i].parentId : i \in DOMAIN standards} |->
        SecondOfEach(SortedByPosition(Grouped(standards, p)))]

\* Mutant: a root is never taken for a leaf.
_identify_leaf_nodes_excluding_roots(standards) ==
    {standards[i].id :
        i \in {j \in DOMAIN standards :
                 /\ standards[j].parentId # None
                 /\ \A k \in DOMAIN standards : standards[k].parentId # standards[j].id}}

\* Mutant: a standard's own parentId is not counted among the parent ids.
_identify_leaf_nodes_ignoring_self(standards) ==
    {standards[i].id :
        i \in {j \in DOMAIN standards :
                 \A k \in DOMAIN standards :
                     k # j => standards[k].parentId # standards[j].id}}

_identify_leaf_nodes(standards) ==
    LET all_ids    == Keys(standards)
        parent_ids == {standards[i].parentId :
                          i \in {j \in DOMAIN standards : standards[j].parentId # None}}
    IN  all_ids \ parent_ids

_identify_root_nodes(standards) ==
    {standards[i].id : i \in {j \in DOMAIN standards : standards[j].parentId = None}}

\* ------------------------------------------------------ hierarchy resolver
Reverse(s) == [i \in DOMAIN s |-> s[Len(s) + 1 - i]]

\* A dict that stands for "no standard": the value of unused locals.
NoStandard ==
    [id |-> None, parentId |-> None, position |-> 1, depth |-> 0,
     statementNotation |-> NoneStr, description |-> "",
     statementLabel |-> NoneStr, asnIdentifier |-> NoneStr]

\* The locals of a walk: current and visited of find_root_id; current_id,
\* visited and ancestors of build_ordered_ancestors.  steps counts the
\* executions of the loop body, done is set when the loop is left.
NoWalk ==
    [kind |-> "none", current |-> NoStandard, current_id |-> None,
     visited |-> {}, ancestors |-> <<>>, steps |-> 0, done |-> TRUE]

\* Mutant: visited starts with the start standard's own id.
FindRootEnterSelfVisited(standard) ==
    [kind |-> "find_root", current |-> standard, current_id |-> None,
     visited |-> {standard.id}, ancestors |-> <<>>, steps |-> 0, done |-> FALSE]

\* find_root_id before its loop: current = standard, visited = set().
FindRootEnter(standard) ==
    [kind |-> "find_root", current |-> standard, current_id |-> None,
     visited |-> {}, ancestors |-> <<>>, steps |-> 0, done |-> FALSE]

\* Mutant: the loop without its circular reference protection.
FindRootStepUnguarded(w, map) ==
    IF w.current.parentId = None
    THEN [w EXCEPT !.done = TRUE]
    ELSE LET parent_id == w.current.parentId
         IN  IF parent_id \notin DOMAIN map
             THEN [w EXCEPT !.visited = @ \cup {parent_id},
                            !.done = TRUE, !.steps = @ + 1]
             ELSE [w EXCEPT !.visited = @ \cup {parent_id},
                            !.current = map[parent_id], !.steps = @ + 1]

\* Mutant: when the parent has been visited the walk still moves to it
\* before it leaves the loop.
FindRootStepEnteringCycle(w, map) ==
    IF w.current.parentId = None
    THEN [w EXCEPT !.done = TRUE]
    ELSE LET parent_id == w.current.parentId
         IN  IF parent_id \in w.visited
             THEN [w EXCEPT !.current = map[parent_id], !.done = TRUE,
                            !.steps = @ + 1]
             ELSE IF parent_id \notin DOMAIN map
                  THEN [w EXCEPT !.visited = @ \cup {parent_id},
                                 !.done = TRUE, !.steps = @ + 1]
                  ELSE [w EXCEPT !.visited = @ \cup {parent_id},
                                 !.current = map[parent_id], !.steps = @ + 1]

\* One evaluation of find_root_id's loop condition and, when it holds, of
\* the loop body.
FindRootStep(w, map) ==
    IF w.current.parentId = None
    THEN [w EXCEPT !.done = TRUE]
    ELSE LET parent_id == w.current.parentId
         IN  IF parent_id \in w.visited
             THEN [w EXCEPT !.done = TRUE, !.steps = @ + 1]
             ELSE IF parent_id \notin DOMAIN map
                  THEN [w EXCEPT !.visited = @ \cup {parent_id},
                                 !.done = TRUE, !.steps = @ + 1]
                  ELSE [w EXCEPT !.visited = @ \cup {parent_id},
                                 !.current = map[parent_id], !.steps = @ + 1]

\* Mutant: the walk starts at the standard itself instead of its parent.
AncestorsEnterAtSelf(standard) ==
    [kind |-> "ancestors", current |-> NoStandard,
     current_id |-> standard.id, visited |-> {}, ancestors |-> <<>>,
     steps |-> 0, done |-> FALSE]

\* build_ordered_ancestors before its loop.
AncestorsEnter(standard) ==
    [kind |-> "ancestors", current |-> NoStandard,
     current_id |-> standard.parentId, visited |-> {}, ancestors |-> <<>>,
     steps |-> 0, done |-> FALSE]

\* Mutant: ancestors.append(current_id) is done before the id is looked up,
\* so an id that is no key of the map is listed as an ancestor.
AncestorsStepListingUnknown(w, map) ==
    IF w.current_id = None \/ w.current_id \in w.visited
    THEN [w EXCEPT !.done = TRUE]
    ELSE IF w.current_id \in DOMAIN map
         THEN [w EXCEPT !.visited = @ \cup {w.current_id},
                        !.ancestors = Append(@, w.current_id),
                        !.current_id = map[w.current_id].parentId,
                        !.steps = @ + 1]
         ELSE [w EXCEPT !.visited = @ \cup {w.current_id},
                        !.ancestors = Append(@, w.current_id),
                        !.done = TRUE, !.steps = @ + 1]

\* One evaluation of build_ordered_ancestors' loop condition and body.
AncestorsStep(w, map) ==
    IF w.current_id = None \/ w.current_id \in w.visited
    THEN [w EXCEPT !.done = TRUE]
    ELSE IF w.current_id \in DOMAIN map
         THEN [w EXCEPT !.visited = @ \cup {w.current_id},
                        !.ancestors = Append(@, w.current_id),
                        !.current_id = map[w.current_id].parentId,
                        !.steps = @ + 1]
         ELSE [w EXCEPT !.visited = @ \cup {w.current_id}, !.done = TRUE,
                        !.steps = @ + 1]

RECURSIVE FindRootRun(_, _)
FindRootRun(w, map) ==
    IF w.done THEN w ELSE FindRootRun(FindRootStep(w, map), map)

find_root_id(standard, map) ==
    FindRootRun(FindRootEnter(standard), map).current.id

RECURSIVE AncestorsRun(_, _)
AncestorsRun(w, map) ==
    IF w.done THEN w ELSE AncestorsRun(AncestorsStep(w, map), map)

\* Mutant: ancestors.reverse() is forgotten.
build_ordered_ancestors_unreversed(standard, map) ==
    AncestorsRun(AncestorsEnter(standard), map).ancestors

build_ordered_ancestors(standard, map) ==
    Reverse(AncestorsRun(AncestorsEnter(standard), map).ancestors)

\* Mutant: the standard itself is counted among its siblings.
_compute_sibling_count_with_self(standard) ==
    IF standard.parentId \notin DOMAIN parent_to_children
    THEN 0
    ELSE Len(parent_to_children[standard.parentId])

_compute_sibling_count(standard) ==
    IF standard.parentId \notin DOMAIN parent_to_children
    THEN 0
    ELSE Len(SelectSeq(parent_to_children[standard.parentId],
                       LAMBDA s : s # standard.id))

\* ------------------------------------------------------ content text
\* "\n".join(lines)
RECURSIVE Join(_)
Join(lines) ==
    IF lines = <<>> THEN ""
    ELSE IF Len(lines) = 1 THEN lines[1]
    ELSE Join(SubSeq(lines, 1, Len(lines) - 1)) \o "\n" \o lines[Len(lines)]

\* Mutant: `if notation is not None:` instead of `if notation:`.
ContentLineForEmptyNotation(entry) ==
    IF entry.statementNotation # NoneStr
    THEN "Depth " \o ToString(entry.depth) \o " (" \o entry.statementNotation
            \o "): " \o entry.description
    ELSE "Depth " \o ToString(entry.depth) \o ": " \o entry.description

\* The line of one entry of the chain: f"Depth {depth} ({notation}): ..."
\* under `if notation:`, f"Depth {depth}: {description}" otherwise.
ContentLine(entry) ==
    IF ~Falsy(entry.statementNotation)
    THEN "Depth " \o ToString(entry.depth) \o " (" \o entry.statementNotation
            \o "): " \o entry.description
    ELSE "Depth " \o ToString(entry.depth) \o ": " \o entry.description

\* self.id_to_standard[ancestor_id] raises KeyError for an ancestor id that
\* is no key of the map.
_build_content_text_KeyError(standard) ==
    LET ancestor_ids == build_ordered_ancestors(standard, id_to_standard)
    IN  \E i \in DOMAIN ancestor_ids : ancestor_ids[i] \notin DOMAIN id_to_standard

_build_content_text(standard) ==
    LET ancestor_ids == build_ordered_ancestors(standard, id_to_standard)
        lines == [i \in DOMAIN ancestor_ids |->
                     ContentLine(id_to_standard[ancestor_ids[i]])]
                 \o <<ContentLine(standard)>>
    IN  Join(lines)

\* ------------------------------------------------------ record transformer
\* The exception _transform_standard ends with, "none" when it returns: the
\* KeyError of _build_content_text, or the ValidationError of
\* PineconeRecord(**record_data), whose document_id and document_valid are
\* required strings.
_transform_standard_raises(standard) ==
    IF _build_content_text_KeyError(standard) THEN "KeyError"
    ELSE IF document.id = NoneStr \/ document.valid = NoneStr
         THEN "ValidationError"
         ELSE "none"

\* A dict with the one key, or the empty dict when `if value:` fails.
OnlyIfPresent(key, value) ==
    IF Falsy(value) THEN <<>> ELSE [k \in {key} |-> value]

\* The dict record_data: asn_identifier, statement_notation and
\* statement_label are keys of it only when their source value is true.
record_data(standard) ==
    LET is_root == standard.parentId = None
    IN  [id            |-> standard.id,
         content       |-> _build_content_text(standard),
         document_id   |-> document.id,
         document_valid |-> document.valid,
         depth         |-> standard.depth,
         is_leaf       |-> standard.id \in leaf_nodes,
         is_root       |-> is_root,
         parent_id     |-> standard.parentId,
         root_id       |-> IF is_root THEN standard.id
                           ELSE find_root_id(standard, id_to_standard),
         ancestor_ids  |-> build_ordered_ancestors(standard, id_to_standard),
         child_ids     |-> IF standard.id \in DOMAIN parent_to_children
                           THEN parent_to_children[standard.id]
                           ELSE <<>>,
         sibling_count |-> _compute_sibling_count(standard)]
        @@ OnlyIfPresent("asn_identifier", standard.asnIdentifier)
        @@ OnlyIfPresent("statement_notation", standard.statementNotation)
        @@ OnlyIfPresent("statement_label", standard.statementLabel)

\* The fields of PineconeRecord declared `str | None = None` that record_data
\* may lack.
DefaultedFields == {"asn_identifier", "statement_notation", "statement_label"}

\* PineconeRecord(**data): a field data has no key for takes its default.
PineconeRecord(data) ==
    [k \in DOMAIN data \cup DefaultedFields |->
        IF k \in DOMAIN data THEN data[k] ELSE NoneStr]

\* record.model_dump(mode="json"): a dict with every field of the model
\* under the field's own name, None included (neither exclude_none nor
\* by_alias is set).
model_dump(record) == [k \in DOMAIN record |-> record[k]]

_transform_standard(standard) == PineconeRecord(record_data(standard))

\* ------------------------------------------------------ batch orchestrator
EmptyMap == <<>>

\* A newly constructed processor, no call made on it yet.
FreshProcessor ==
    /\ id_to_standard = EmptyMap
    /\ parent_to_children = EmptyMap
    /\ leaf_nodes = {}
    /\ root_nodes = {}
    /\ pc = "idle"
    /\ records = <<>>
    /\ calls = 0
    /\ result = <<>>
    /\ first = <<>>
    /\ walk = NoWalk
    /\ error = "none"

\* No helper has been called directly.
NoReturn == [fn |-> "none", arg |-> 0, value |-> 0]

\* A directory without processed.json.
Absent == [kind |-> "absent"]

\* process_and_save is not running, and there are no files.
NoSave ==
    /\ files = [data |-> [kind |-> "missing"], processed |-> Absent]
    /\ save = [pc |-> "none", before |-> Absent]

\* No education_levels value.
NoLevels == [input |-> <<>>, value |-> <<>>, passes |-> 0]

\* exponential_backoff_retry is not running.
NoRetry ==
    [pc |-> "none", max_retries |-> 0, attempt |-> 0, calls |-> 0,
     sleeps |-> <<>>, last |-> [kind |-> "none"], outcome |-> [kind |-> "none"],
     batch |-> <<>>]

\* batch_upsert is not running.
NoUpsert ==
    [pc |-> "none", batch_size |-> 0, i |-> 0, sent |-> <<>>, done |-> 0,
     pauses |-> 0, error |-> "none"]

\* No tool implementation has been called.
NoTool ==
    [fn |-> "none", input |-> [type |-> "None", text |-> <<>>],
     behaviour |-> "none", raised |-> "none", response |-> <<>>,
     contacted |-> FALSE, query |-> <<>>]

\* The module was just imported: _request_timestamps = [], clock at 0, no
\* request sent.
NoLimiter == [timestamps |-> <<>>, clock |-> 0, sent |-> <<>>]

\* _make_request is not running.
NoRequest ==
    [pc |-> "none", api_key |-> TRUE, max_retries |-> 0, attempt |-> 0,
     log |-> <<>>, sleeps |-> <<>>, error |-> "none"]

\* No cached fetch is running.
NoCache ==
    [pc |-> "none", fn |-> "none", force |-> FALSE, force_refresh |-> FALSE,
     api_key |-> TRUE, before |-> [state |-> "missing", data |-> "absent"],
     file |-> [state |-> "missing", data |-> "absent"], raw_data |-> "empty",
     response |-> "absent", requests |-> 0, write |-> "none",
     error |-> "none"]

\* The pinecone-upload command is not running.
NoCommand ==
    [pc |-> "none", force |-> FALSE, batch_size |-> 0, sets |-> <<>>,
     sets_to_upload |-> <<>>, i |-> 0, uploaded_count |-> 0,
     failed_count |-> 0, skipped_count |-> 0]

\* Neither the upload nor the API client is running.
NoApi ==
    /\ upsert = NoUpsert
    /\ tool = NoTool
    /\ other = <<>>
    /\ limiter = NoLimiter
    /\ request = NoRequest
    /\ cache = NoCache
    /\ command = NoCommand

\* No record, no education_levels value and no retried call.
NoClient ==
    /\ to_upload = <<>>
    /\ levels = NoLevels
    /\ retry = NoRetry
    /\ NoApi

\* A caller holds a parsed StandardSet, any dict of at most MaxNodes
\* standards, and a newly constructed processor.
Init ==
    /\ \E k \in 0..MaxNodes : tree \in [1..k -> Standard]
    /\ DistinctIds(tree)
    /\ document = FullDocument
    /\ FreshProcessor
    /\ ret = NoReturn
    /\ NoSave
    /\ NoClient

\* The same, for the sets whose standards all share one position: every
\* hierarchy (parentId) of at most MaxNodes standards, in every iteration
\* order.
InitHierarchy ==
    /\ \E k \in 0..MaxNodes : tree \in [1..k -> UnorderedStandard]
    /\ DistinctIds(tree)
    /\ document = FullDocument
    /\ FreshProcessor
    /\ ret = NoReturn
    /\ NoSave
    /\ NoClient

\* StandardSetProcessor.__init__: the caller takes a new processor.
Construct ==
    /\ pc = "idle"
    /\ id_to_standard' = EmptyMap
    /\ parent_to_children' = EmptyMap
    /\ leaf_nodes' = {}
    /\ root_nodes' = {}
    /\ UNCHANGED <<tree, pc, records, calls, result, first, walk, document,
                   error, others>>

\* Mutant: the maps are updated with those of the tree (dict.update,
\* set.update) instead of being assigned.
BuildRelationshipMapsUpdating ==
    /\ id_to_standard' = _build_id_to_standard_map(tree) @@ id_to_standard
    /\ parent_to_children' =
          _build_parent_to_children_map(tree) @@ parent_to_children
    /\ leaf_nodes' = _identify_leaf_nodes(tree) \cup leaf_nodes
    /\ root_nodes' = _identify_root_nodes(tree) \cup root_nodes

\* _build_relationship_maps: the four maps are assigned from the tree.
BuildRelationshipMaps ==
    /\ id_to_standard' = _build_id_to_standard_map(tree)
    /\ parent_to_children' = _build_parent_to_children_map(tree)
    /\ leaf_nodes' = _identify_leaf_nodes(tree)
    /\ root_nodes' = _identify_root_nodes(tree)

\* process_standard_set up to its loop: the maps are built, records = [].
Begin ==
    /\ pc = "idle"
    /\ calls < MaxCalls
    /\ BuildRelationshipMaps
    /\ records' = <<>>
    /\ pc' = "transform"
    /\ UNCHANGED <<tree, calls, result, first, walk, document, error, others>>

\* Mutant: records.insert(0, record) instead of records.append(record).
TransformNextPrepending ==
    /\ pc = "transform"
    /\ Len(records) < Len(tree)
    /\ records' = <<_transform_standard(tree[Len(records) + 1])>> \o records
    /\ UNCHANGED <<tree, id_to_standard, parent_to_children, leaf_nodes,
                   root_nodes, pc, calls, result, first, walk, document,
                   error, others>>

\* Mutant: the maps are built again for every node, from the nodes seen so
\* far.
TransformNextRebuilding ==
    /\ pc = "transform"
    /\ Len(records) < Len(tree)
    /\ LET seen == SubSeq(tree, 1, Len(records) + 1)
       IN  /\ id_to_standard' = _build_id_to_standard_map(seen)
           /\ parent_to_children' = _build_parent_to_children_map(seen)
           /\ leaf_nodes' = _identify_leaf_nodes(seen)
           /\ root_nodes' = _identify_root_nodes(seen)
    /\ records' = Append(records, _transform_standard(tree[Len(records) + 1]))
    /\ UNCHANGED <<tree, pc, calls, result, first, walk, document, error,
                   others>>

\* One iteration of the loop over standard_set.standards.items().
\* An exception of _transform_standard is caught nowhere: it ends the call,
\* and the records built so far are lost with the frame.
TransformNext ==
    /\ pc = "transform"
    /\ Len(records) < Len(tree)
    /\ LET standard == tree[Len(records) + 1]
           raised   == _transform_standard_raises(standard)
       IN  IF raised # "none"
           THEN /\ pc' = "raised"
                /\ error' = raised
                /\ UNCHANGED records
           ELSE /\ records' = Append(records, _transform_standard(standard))
                /\ UNCHANGED <<pc, error>>
    /\ UNCHANGED <<tree, id_to_standard, parent_to_children, leaf_nodes,
                   root_nodes, calls, result, first, walk, document, others>>

\* return ProcessedStandardSet(records=records)
Return ==
    /\ pc = "transform"
    /\ Len(records) = Len(tree)
    /\ result' = records
    /\ first' = IF calls = 0 THEN records ELSE first
    /\ calls' = calls + 1
    /\ pc' = "idle"
    /\ UNCHANGED <<tree, id_to_standard, parent_to_children, leaf_nodes,
                   root_nodes, records, walk, document, error, others>>

Next == Construct \/ Begin \/ TransformNext \/ Return

Spec == Init /\ [][Next]_vars

SpecHierarchy == InitHierarchy /\ [][Next]_vars

\* The same sets, with every document the input model accepts: id and valid
\* each set or None.
InitDocument ==
    /\ \E k \in 0..MaxNodes : tree \in [1..k -> UnorderedStandard]
    /\ DistinctIds(tree)
    /\ document \in Document
    /\ FreshProcessor
    /\ ret = NoReturn
    /\ NoSave
    /\ NoClient

SpecDocument == InitDocument /\ [][Next]_vars

\* ------------------------------------------------ one processor, several trees
\* Largest number of nodes of the tree processed in between.
MaxOther == 1

\* process_standard_set(other_set) on the same processor, between two calls
\* on the tree: a whole call on another standard set, whose maps the
\* processor is left with and whose returned list the caller drops.
ProcessOther ==
    /\ pc = "idle"
    /\ calls >= 1
    /\ other = <<>>
    /\ \E k \in 1..MaxOther :
          \E standards \in [1..k -> UnorderedStandard] :
              /\ DistinctIds(standards)
              /\ standards # tree
              /\ other' = standards
              /\ id_to_standard' = _build_id_to_standard_map(standards)
              /\ parent_to_children' = _build_parent_to_children_map(standards)
              /\ leaf_nodes' = _identify_leaf_nodes(standards)
              /\ root_nodes' = _identify_root_nodes(standards)
    /\ UNCHANGED <<tree, pc, records, calls, result, first, walk, document,
                   error, ret, files, save, to_upload, levels, retry, upsert,
                   tool, limiter, request, cache, command>>

NextReuse == Next \/ ProcessOther

\* A new processor is called on the tree, then on another tree, then on the
\* tree again.
SpecReuse == InitHierarchy /\ [][NextReuse]_vars

\* ------------------------------------------------- the upward walks, stepwise
\* A caller holds a tree and its id -> standard map and calls the two public
\* walks on the standards of the tree.
InitWalk ==
    /\ \E k \in 0..MaxNodes : tree \in [1..k -> UnorderedStandard]
    /\ DistinctIds(tree)
    /\ id_to_standard = _build_id_to_standard_map(tree)
    /\ parent_to_children = EmptyMap
    /\ leaf_nodes = {}
    /\ root_nodes = {}
    /\ pc = "idle"
    /\ records = <<>>
    /\ calls = 0
    /\ result = <<>>
    /\ first = <<>>
    /\ walk = NoWalk
    /\ document = FullDocument
    /\ error = "none"
    /\ ret = NoReturn
    /\ NoSave
    /\ NoClient

CallFindRoot ==
    /\ walk.done
    /\ \E i \in DOMAIN tree : walk' = FindRootEnter(tree[i])
    /\ UNCHANGED <<tree, id_to_standard, parent_to_children, leaf_nodes,
                   root_nodes, pc, records, calls, result, first, document,
                   error, others>>

\* The guard on steps stops a walk that would never leave its loop.
StepFindRoot ==
    /\ walk.kind = "find_root"
    /\ ~walk.done
    /\ walk.steps <= MaxNodes + 1
    /\ walk' = FindRootStep(walk, id_to_standard)
    /\ UNCHANGED <<tree, id_to_standard, parent_to_children, leaf_nodes,
                   root_nodes, pc, records, calls, result, first, document,
                   error, others>>

CallAncestors ==
    /\ walk.done
    /\ \E i \in DOMAIN tree : walk' = AncestorsEnter(tree[i])
    /\ UNCHANGED <<tree, id_to_standard, parent_to_children, leaf_nodes,
                   root_nodes, pc, records, calls, result, first, document,
                   error, others>>

StepAncestors ==
    /\ walk.kind = "ancestors"
    /\ ~walk.done
    /\ walk.steps <= MaxNodes + 1
    /\ walk' = AncestorsStep(walk, id_to_standard)
    /\ UNCHANGED <<tree, id_to_standard, parent_to_children, leaf_nodes,
                   root_nodes, pc, records, calls, result, first, document,
                   error, others>>

NextWalk == CallFindRoot \/ StepFindRoot \/ CallAncestors \/ StepAncestors

SpecWalk == InitWalk /\ [][NextWalk]_vars

\* ------------------------------------------------- content text, called directly
\* statementNotation of a standard: None, the empty string or a code.
Notations == {NoneStr, "", "1.A"}

\* The standards 1..k of a set, each with a depth and a description of its
\* own, any parentId and any notation.
ContentTree(k, parents, notations) ==
    [i \in 1..k |->
        [id |-> i, parentId |-> parents[i], position |-> 1, depth |-> i - 1,
         statementNotation |-> notations[i],
         description |-> "S" \o ToString(i),
         statementLabel |-> NoneStr, asnIdentifier |-> NoneStr]]

\* A caller holds a processor whose id -> standard map is built and calls
\* _build_content_text on the standards of the set.
InitContent ==
    /\ \E k \in 0..MaxNodes :
          \E parents \in [1..k -> ParentRefs], notations \in [1..k -> Notations] :
              tree = ContentTree(k, parents, notations)
    /\ id_to_standard = _build_id_to_standard_map(tree)
    /\ parent_to_children = EmptyMap
    /\ leaf_nodes = {}
    /\ root_nodes = {}
    /\ pc = "idle"
    /\ records = <<>>
    /\ calls = 0
    /\ result = <<>>
    /\ first = <<>>
    /\ walk = NoWalk
    /\ document = FullDocument
    /\ error = "none"
    /\ ret = NoReturn
    /\ NoSave
    /\ NoClient

CallBuildContent ==
    /\ error = "none"
    /\ \E i \in DOMAIN tree :
          IF _build_content_text_KeyError(tree[i])
          THEN /\ error' = "KeyError"
               /\ UNCHANGED ret
          ELSE /\ ret' = [fn |-> "_build_content_text", arg |-> i,
                          value |-> _build_content_text(tree[i])]
               /\ UNCHANGED error
    /\ UNCHANGED <<tree, id_to_standard, parent_to_children, leaf_nodes,
                   root_nodes, pc, records, calls, result, first, walk,
                   document, files, save, clientVars>>

NextContent == CallBuildContent

SpecContent == InitContent /\ [][NextContent]_vars

\* ------------------------------------------------------- process_and_save
\* The standards 1..k of a data.json, any parentId each; of every three
\* standards the first has neither notation nor label, the second has both
\* and an ASN identifier, the third has them as empty strings.
SavedTree(k, parents) ==
    [i \in 1..k |->
        [id |-> i, parentId |-> parents[i], position |-> 1, depth |-> 0,
         statementNotation |->
            IF i % 3 = 1 THEN NoneStr ELSE IF i % 3 = 2 THEN "1.A" ELSE "",
         description |-> "S" \o ToString(i),
         statementLabel |->
            IF i % 3 = 1 THEN NoneStr ELSE IF i % 3 = 2 THEN "Standard" ELSE "",
         asnIdentifier |-> IF i % 3 = 2 THEN "S2" ELSE NoneStr]]

\* processed.json opened for writing: created, or cut to nothing.
Empty == [kind |-> "empty"]

\* A processed.json left by an earlier run.
Earlier == [kind |-> "earlier"]

\* json.dump(processed_set.model_dump(mode="json"), f): one JSON object per
\* record under "records".
Dumped(processed_set) ==
    [kind |-> "written",
     records |-> [i \in DOMAIN processed_set |-> model_dump(processed_set[i])]]

\* process_and_save is called on a directory whose data.json is missing, is
\* not JSON, is JSON of another shape, or is a standard set of at most
\* MaxNodes standards; processed.json is absent or left by an earlier run.
InitSave ==
    /\ \E data \in {[kind |-> "missing"], [kind |-> "text"], [kind |-> "json"]}
                   \cup UNION {{[kind |-> "standard_set",
                                  standards |-> SavedTree(k, parents),
                                  document |-> d] :
                                    parents \in [1..k -> ParentRefs], d \in Document} :
                                 k \in 0..MaxNodes},
          before \in {Absent, Earlier} :
            /\ files = [data |-> data, processed |-> before]
            /\ save = [pc |-> "exists", before |-> before]
    /\ tree = <<>>
    /\ document = FullDocument
    /\ FreshProcessor
    /\ ret = NoReturn
    /\ NoClient

\* if not data_file.exists(): raise FileNotFoundError
SaveExists ==
    /\ save.pc = "exists"
    /\ IF files.data.kind = "missing"
       THEN /\ save' = [save EXCEPT !.pc = "raised"]
            /\ error' = "FileNotFoundError"
       ELSE /\ save' = [save EXCEPT !.pc = "load"]
            /\ UNCHANGED error
    /\ UNCHANGED <<tree, id_to_standard, parent_to_children, leaf_nodes,
                   root_nodes, pc, records, calls, result, first, walk,
                   document, ret, files, clientVars>>

\* raw_data = json.load(f); a JSONDecodeError becomes a ValueError.
SaveLoad ==
    /\ save.pc = "load"
    /\ IF files.data.kind = "text"
       THEN /\ save' = [save EXCEPT !.pc = "raised"]
            /\ error' = "ValueError"
       ELSE /\ save' = [save EXCEPT !.pc = "parse"]
            /\ UNCHANGED error
    /\ UNCHANGED <<tree, id_to_standard, parent_to_children, leaf_nodes,
                   root_nodes, pc, records, calls, result, first, walk,
                   document, ret, files, clientVars>>

\* response = StandardSetResponse(**raw_data); any exception becomes a
\* ValueError.  Then processor = StandardSetProcessor().
SaveParse ==
    /\ save.pc = "parse"
    /\ IF files.data.kind = "json"
       THEN /\ save' = [save EXCEPT !.pc = "raised"]
            /\ error' = "ValueError"
            /\ UNCHANGED <<tree, document>>
       ELSE /\ save' = [save EXCEPT !.pc = "process"]
            /\ tree' = files.data.standards
            /\ document' = files.data.document
            /\ UNCHANGED error
    /\ UNCHANGED <<id_to_standard, parent_to_children, leaf_nodes,
                   root_nodes, pc, records, calls, result, first, walk,
                   ret, files, clientVars>>

\* processed_set = processor.process_standard_set(standard_set), step by
\* step; an exception of it leaves process_and_save at once.
SaveBegin == save.pc = "process" /\ calls = 0 /\ Begin

SaveTransformNext == save.pc = "process" /\ TransformNext

SaveReturn == save.pc = "process" /\ Return

\* Mutant: processed.json is opened before the set is processed.
SaveOpenBeforeProcessing ==
    /\ save.pc = "process"
    /\ pc = "idle"
    /\ files' = [files EXCEPT !.processed = Empty]
    /\ save' = [save EXCEPT !.pc = "dump"]
    /\ UNCHANGED <<tree, id_to_standard, parent_to_children, leaf_nodes,
                   root_nodes, pc, records, calls, result, first, walk,
                   document, error, ret, clientVars>>

\* processed_file.parent.mkdir(...); open(processed_file, "w")
SaveOpen ==
    /\ save.pc = "process"
    /\ pc = "idle"
    /\ calls = 1
    /\ files' = [files EXCEPT !.processed = Empty]
    /\ save' = [save EXCEPT !.pc = "dump"]
    /\ UNCHANGED <<tree, id_to_standard, parent_to_children, leaf_nodes,
                   root_nodes, pc, records, calls, result, first, walk,
                   document, error, ret, clientVars>>

\* json.dump(...), the file is closed, the path is returned.
SaveDump ==
    /\ save.pc = "dump"
    /\ files' = [files EXCEPT !.processed = Dumped(result)]
    /\ save' = [save EXCEPT !.pc = "done"]
    /\ UNCHANGED <<tree, id_to_standard, parent_to_children, leaf_nodes,
                   root_nodes, pc, records, calls, result, first, walk,
                   document, error, ret, clientVars>>

NextSave ==
    \/ SaveExists \/ SaveLoad \/ SaveParse
    \/ SaveBegin \/ SaveTransformNext \/ SaveReturn
    \/ SaveOpen \/ SaveDump

SpecSave == InitSave /\ [][NextSave]_vars

\* ------------------------------------------------- PineconeClient._record_to_dict
\* A PineconeRecord built field by field, as the tests build theirs: the
\* record of standard 1, a root or a child of 2, each optional field None or
\* set (statement_label also to the empty string).
UploadRecords ==
    {[id |-> 1, content |-> "Depth 0: S1", document_id |-> "D1",
      document_valid |-> "2010", depth |-> 0, is_leaf |-> TRUE,
      is_root |-> parent = None, parent_id |-> parent,
      root_id |-> IF parent = None THEN 1 ELSE parent,
      ancestor_ids |-> IF parent = None THEN <<>> ELSE <<parent>>,
      child_ids |-> <<>>, sibling_count |-> 0,
      asn_identifier |-> asn, statement_notation |-> notation,
      statement_label |-> label, normalized_subject |-> subject,
      publication_status |-> status] :
        parent \in {None, 2}, asn \in {NoneStr, "S1"},
        notation \in {NoneStr, "1.A"}, label \in {NoneStr, "", "Standard"},
        subject \in {NoneStr, "math"}, status \in {NoneStr, "Published"}}

\* `value is None` for the value of a field: parent_id holds an id or None,
\* the other optional fields a string or None.
IsNone(field, value) ==
    IF field = "parent_id" THEN value = None ELSE value = NoneStr

\* record.model_dump(exclude_none=False, by_alias=True): every field, id
\* under its serialization alias _id.
model_dump_by_alias(record) ==
    [k \in (DOMAIN record \ {"id"}) \cup {"_id"} |->
        IF k = "_id" THEN record.id ELSE record[k]]

\* Mutant: the set without parent_id.
optional_fields_without_parent_id ==
    {"asn_identifier", "statement_notation", "statement_label",
     "normalized_subject", "publication_status"}

\* optional_fields of src/tools/pinecone_client.py.
optional_fields ==
    {"asn_identifier", "statement_notation", "statement_label",
     "normalized_subject", "publication_status", "parent_id"}

\* optional_fields of src/src/pinecone_client.py.
optional_fields_src == optional_fields \cup {"document_id", "document_valid"}

\* for field in fields: if record_dict.get(field) is None: pop it.
Popped(record_dict, fields) ==
    [k \in {f \in DOMAIN record_dict :
               ~(f \in fields /\ IsNone(f, record_dict[f]))} |-> record_dict[k]]

_record_to_dict(record) == Popped(model_dump_by_alias(record), optional_fields)

_record_to_dict_src(record) ==
    Popped(model_dump_by_alias(record), optional_fields_src)

\* A caller holds one record.
InitDict ==
    /\ to_upload \in {<<record>> : record \in UploadRecords}
    /\ levels = NoLevels
    /\ retry = NoRetry
    /\ NoApi
    /\ tree = <<>>
    /\ document = FullDocument
    /\ FreshProcessor
    /\ ret = NoReturn
    /\ NoSave

\* PineconeClient._record_to_dict(record) of src/tools.
CallRecordToDict ==
    /\ ret' = [fn |-> "_record_to_dict", arg |-> 1,
               value |-> _record_to_dict(to_upload[1])]
    /\ UNCHANGED <<tree, id_to_standard, parent_to_children, leaf_nodes,
                   root_nodes, pc, records, calls, result, first, walk,
                   document, error, files, save, clientVars>>

\* PineconeClient._record_to_dict(record) of src/src.
CallRecordToDictSrc ==
    /\ ret' = [fn |-> "src._record_to_dict", arg |-> 1,
               value |-> _record_to_dict_src(to_upload[1])]
    /\ UNCHANGED <<tree, id_to_standard, parent_to_children, leaf_nodes,
                   root_nodes, pc, records, calls, result, first, walk,
                   document, error, files, save, clientVars>>

NextDict == CallRecordToDict \/ CallRecordToDictSrc

SpecDict == InitDict /\ [][NextDict]_vars

\* ------------------------------------------- PineconeRecord.education_levels
\* A string is the sequence of its characters: two digits, the comma and
\* the blank.
Chars == {"1", "2", ",", " "}

\* item.split(","): the pieces between the commas, empty ones included.
RECURSIVE split(_)
split(item) ==
    IF \A i \in DOMAIN item : item[i] # "," THEN <<item>>
    ELSE LET comma == CHOOSE i \in DOMAIN item :
                         /\ item[i] = ","
                         /\ \A j \in 1..(i - 1) : item[j] # ","
         IN  <<SubSeq(item, 1, comma - 1)>>
             \o split(SubSeq(item, comma + 1, Len(item)))

\* s.strip(): without its leading and trailing blanks.
RECURSIVE strip(_)
strip(str) ==
    IF str = <<>> THEN str
    ELSE IF Head(str) = " " THEN strip(Tail(str))
    ELSE IF str[Len(str)] = " " THEN strip(SubSeq(str, 1, Len(str) - 1))
    ELSE str

\* [s.strip() for s in item.split(",") if s.strip()]
split_items(item) ==
    LET pieces == split(item)
    IN  SelectSeq([i \in DOMAIN pieces |-> strip(pieces[i])],
                  LAMBDA piece : piece # <<>>)

\* The list `flattened` after the first loop.
RECURSIVE flattened(_)
flattened(v) ==
    IF v = <<>> THEN <<>>
    ELSE flattened(SubSeq(v, 1, Len(v) - 1)) \o split_items(v[Len(v)])

\* Mutant: of equal items the last is kept, not the first.
RECURSIVE DeduplicatedKeepingLast(_)
DeduplicatedKeepingLast(items) ==
    IF items = <<>> THEN <<>>
    ELSE LET rest == DeduplicatedKeepingLast(Tail(items))
         IN  IF \E i \in DOMAIN rest : rest[i] = Head(items)
             THEN rest
             ELSE <<Head(items)>> \o rest

\* The list `result` after the second loop: an item is appended unless it
\* is in `seen`.
RECURSIVE Deduplicated(_)
Deduplicated(items) ==
    IF items = <<>> THEN <<>>
    ELSE LET result_so_far == Deduplicated(SubSeq(items, 1, Len(items) - 1))
             item == items[Len(items)]
         IN  IF \E i \in DOMAIN result_so_far : result_so_far[i] = item
             THEN result_so_far
             ELSE Append(result_so_far, item)

process_education_levels(v) == Deduplicated(flattened(v))

\* A caller holds a list of at most MaxLevels strings of at most
\* MaxLevelLen characters.
InitLevels ==
    /\ \E k \in 0..MaxLevels :
          \E v \in [1..k -> UNION {[1..n -> Chars] : n \in 0..MaxLevelLen}] :
              levels = [input |-> v, value |-> v, passes |-> 0]
    /\ to_upload = <<>>
    /\ retry = NoRetry
    /\ NoApi
    /\ tree = <<>>
    /\ document = FullDocument
    /\ FreshProcessor
    /\ ret = NoReturn
    /\ NoSave

\* A PineconeRecord is built from the value: the validator runs on it.  The
\* second pass builds a record from the education_levels of the first.
ValidateLevels ==
    /\ levels.passes < MaxPasses
    /\ levels' = [levels EXCEPT !.value = process_education_levels(@),
                                !.passes = @ + 1]
    /\ UNCHANGED <<tree, id_to_standard, parent_to_children, leaf_nodes,
                   root_nodes, pc, records, calls, result, first, walk,
                   document, error, ret, files, save, to_upload, retry, apiVars>>

NextLevels == ValidateLevels

SpecLevels == InitLevels /\ [][NextLevels]_vars

\* ------------------------------------------- _compute_sibling_count, called directly
\* A caller holds a processor whose parent -> children map was built from
\* the first standards of a set (from none of them, from all of them) and
\* calls _compute_sibling_count on the standards of the set.
InitSiblings ==
    /\ \E k \in 0..MaxNodes : tree \in [1..k -> UnorderedStandard]
    /\ DistinctIds(tree)
    /\ \E m \in 0..Len(tree) :
          parent_to_children = _build_parent_to_children_map(SubSeq(tree, 1, m))
    /\ id_to_standard = EmptyMap
    /\ leaf_nodes = {}
    /\ root_nodes = {}
    /\ pc = "idle"
    /\ records = <<>>
    /\ calls = 0
    /\ result = <<>>
    /\ first = <<>>
    /\ walk = NoWalk
    /\ document = FullDocument
    /\ error = "none"
    /\ ret = NoReturn
    /\ NoSave
    /\ NoClient

CallSiblingCount ==
    /\ \E i \in DOMAIN tree :
          ret' = [fn |-> "_compute_sibling_count", arg |-> i,
                  value |-> _compute_sibling_count(tree[i])]
    /\ UNCHANGED <<tree, id_to_standard, parent_to_children, leaf_nodes,
                   root_nodes, pc, records, calls, result, first, walk,
                   document, error, files, save, clientVars>>

NextSiblings == CallSiblingCount

SpecSiblings == InitSiblings /\ [][NextSiblings]_vars

\* ------------------------------------- PineconeClient.exponential_backoff_retry
\* What one call of func does: it returns, it raises a PineconeException
\* whose status is one of these codes or is missing, or it raises another
\* exception.
Outcomes ==
    {[kind |-> "ok"], [kind |-> "other"]}
    \cup {[kind |-> "pinecone", status |-> status] :
             status \in {None, 400, 404, 429, 500, 503}}

\* Mutant: every status from 400 on is retried.
RetryableFrom400(status) == status # None /\ status >= 400

\* status_code and (status_code >= 500 or status_code == 429)
Retryable(status) == status # None /\ (status >= 500 \/ status = 429)

\* 2 ** attempt
RECURSIVE Pow2(_)
Pow2(n) == IF n = 0 THEN 1 ELSE 2 * Pow2(n - 1)

\* delay = min(2 ** attempt, 60)
Delay(attempt) == IF Pow2(attempt) < 60 THEN Pow2(attempt) ELSE 60

\* exponential_backoff_retry(func, max_retries) is entered.
InitRetry ==
    /\ \E max_retries \in 0..MaxRetries :
          retry = [NoRetry EXCEPT !.pc = "loop", !.max_retries = max_retries]
    /\ to_upload = <<>>
    /\ levels = NoLevels
    /\ NoApi
    /\ tree = <<>>
    /\ document = FullDocument
    /\ FreshProcessor
    /\ ret = NoReturn
    /\ NoSave

\* for attempt in range(max_retries): try: return func()
TryFunc ==
    /\ retry.pc = "loop"
    /\ retry.attempt < retry.max_retries
    /\ \E outcome \in Outcomes :
          retry' = [retry EXCEPT
                      !.calls = @ + 1,
                      !.last = outcome,
                      !.pc = IF outcome.kind = "ok" THEN "returned" ELSE "except",
                      !.outcome = IF outcome.kind = "ok" THEN outcome ELSE @]

\* The except clauses: sleep and go on, or raise.
ExceptClauses ==
    /\ retry.pc = "except"
    /\ IF /\ retry.last.kind = "pinecone"
          /\ Retryable(retry.last.status)
          /\ retry.attempt < retry.max_retries - 1
       THEN retry' = [retry EXCEPT !.sleeps = Append(@, Delay(retry.attempt)),
                                  !.attempt = @ + 1,
                                  !.pc = "loop"]
       ELSE retry' = [retry EXCEPT !.pc = "raised", !.outcome = retry.last]

\* exponential_backoff_retry called on its own: one call of func.
RetryCall ==
    /\ TryFunc
    /\ UNCHANGED <<tree, id_to_standard, parent_to_children, leaf_nodes,
                   root_nodes, pc, records, calls, result, first, walk,
                   document, error, ret, files, save, to_upload, levels, apiVars>>

\* exponential_backoff_retry called on its own: the handling of a failure.
RetryExcept ==
    /\ ExceptClauses
    /\ UNCHANGED <<tree, id_to_standard, parent_to_children, leaf_nodes,
                   root_nodes, pc, records, calls, result, first, walk,
                   document, error, ret, files, save, to_upload, levels, apiVars>>

\* range(max_retries) is used up without a return or a raise: the function
\* body ends, which returns None.
RetryFallThrough ==
    /\ retry.pc = "loop"
    /\ retry.attempt >= retry.max_retries
    /\ retry' = [retry EXCEPT !.pc = "returned", !.outcome = [kind |-> "None"]]
    /\ UNCHANGED <<tree, id_to_standard, parent_to_children, leaf_nodes,
                   root_nodes, pc, records, calls, result, first, walk,
                   document, error, ret, files, save, to_upload, levels, apiVars>>

NextRetry == RetryCall \/ RetryExcept \/ RetryFallThrough

SpecRetry == InitRetry /\ [][NextRetry]_vars

\* ------------------------------------------------- PineconeClient.batch_upsert
\* Largest number of records handed to batch_upsert, largest batch_size.
MaxRecords == 3
MaxBatchSize == 3

\* max_retries of exponential_backoff_retry when batch_upsert calls it: the
\* default.
DefaultMaxRetries == 5

\* The PineconeRecord of a root standard without optional fields.
RootRecord(id) ==
    [id |-> id, content |-> "Depth 0: S" \o ToString(id), document_id |-> "D1",
     document_valid |-> "2010", depth |-> 0, is_leaf |-> TRUE,
     is_root |-> TRUE, parent_id |-> None, root_id |-> id,
     ancestor_ids |-> <<>>, child_ids |-> <<>>, sibling_count |-> 0,
     asn_identifier |-> NoneStr, statement_notation |-> NoneStr,
     statement_label |-> NoneStr, normalized_subject |-> NoneStr,
     publication_status |-> NoneStr]

\* i in range(0, stop, step), for an i the loop has reached.
InRange(i, stop, step) == IF step > 0 THEN i < stop ELSE i > stop

\* records[a : b] for 0 <= a.
Slice(list, a, b) ==
    SubSeq(list, a + 1, IF b < Len(list) THEN b ELSE Len(list))

\* batch_upsert(records, batch_size) is entered: at most MaxRecords records,
\* the same record possibly more than once, and any batch_size the
\* --batch-size option passes on (an int without a lower limit).
InitBatch ==
    /\ \E n \in 0..MaxRecords : to_upload \in [1..n -> {RootRecord(1), RootRecord(2)}]
    /\ \E batch_size \in (-1)..MaxBatchSize :
          upsert = [NoUpsert EXCEPT !.pc = "enter", !.batch_size = batch_size]
    /\ tool = NoTool
    /\ other = <<>>
    /\ limiter = NoLimiter
    /\ request = NoRequest
    /\ cache = NoCache
    /\ command = NoCommand
    /\ levels = NoLevels
    /\ retry = NoRetry
    /\ tree = <<>>
    /\ document = FullDocument
    /\ FreshProcessor
    /\ ret = NoReturn
    /\ NoSave

\* What batch_upsert leaves alone.
BatchFrame ==
    UNCHANGED <<tree, id_to_standard, parent_to_children, leaf_nodes,
                root_nodes, pc, records, calls, result, first, walk,
                document, error, ret, files, save, to_upload, levels, tool,
                other, limiter, request, cache, command>>

\* `if not records: return`, then total_batches, whose floor division
\* raises ZeroDivisionError for batch_size = 0.
UpsertBegin ==
    /\ upsert.pc = "enter"
    /\ upsert' = IF to_upload = <<>> THEN [upsert EXCEPT !.pc = "returned"]
                 ELSE IF upsert.batch_size = 0
                 THEN [upsert EXCEPT !.pc = "raised",
                                     !.error = "ZeroDivisionError"]
                 ELSE [upsert EXCEPT !.pc = "loop", !.i = 0]
    /\ UNCHANGED retry
    /\ BatchFrame

\* One iteration of `for i in range(0, len(records), batch_size)` up to the
\* call of exponential_backoff_retry: the slice is converted and the retry
\* sequence of the batch begins.
UpsertBatch ==
    /\ upsert.pc = "loop"
    /\ InRange(upsert.i, Len(to_upload), upsert.batch_size)
    /\ LET batch == Slice(to_upload, upsert.i, upsert.i + upsert.batch_size)
           batch_dicts == [k \in DOMAIN batch |-> _record_to_dict(batch[k])]
       IN  /\ upsert' = [upsert EXCEPT !.pc = "retry"]
           /\ retry' = [NoRetry EXCEPT !.pc = "loop",
                                       !.max_retries = DefaultMaxRetries,
                                       !.batch = batch_dicts]
    /\ BatchFrame

\* func(): self.index.upsert_records(namespace, records=b) is called with
\* the batch; the first call of a retry sequence is the batch's first
\* attempt.
UpsertCall ==
    /\ upsert.pc = "retry"
    /\ TryFunc
    /\ upsert' = IF retry.calls = 0
                 THEN [upsert EXCEPT !.sent = Append(@, retry.batch)]
                 ELSE upsert
    /\ BatchFrame

\* The except clauses of the retry sequence; an exception they raise is
\* caught nowhere in batch_upsert and ends it.
UpsertExcept ==
    /\ upsert.pc = "retry"
    /\ ExceptClauses
    /\ upsert' = IF retry'.pc = "raised"
                 THEN [upsert EXCEPT !.pc = "raised", !.error = "PineconeException"]
                 ELSE upsert
    /\ BatchFrame

\* The retry sequence has returned: sleep 0.1 s when a batch is left, and
\* go on to the next i.
UpsertNext ==
    /\ upsert.pc = "retry"
    /\ retry.pc = "returned"
    /\ upsert' = [upsert EXCEPT
                     !.pc = "loop",
                     !.done = @ + 1,
                     !.pauses = IF upsert.i + upsert.batch_size < Len(to_upload)
                                THEN @ + 1 ELSE @,
                     !.i = @ + upsert.batch_size]
    /\ UNCHANGED retry
    /\ BatchFrame

\* range(0, len(records), batch_size) is used up: batch_upsert logs
\* "Successfully upserted" and returns.
UpsertReturn ==
    /\ upsert.pc = "loop"
    /\ ~InRange(upsert.i, Len(to_upload), upsert.batch_size)
    /\ upsert' = [upsert EXCEPT !.pc = "returned"]
    /\ UNCHANGED retry
    /\ BatchFrame

NextBatch ==
    \/ UpsertBegin
    \/ UpsertBatch
    \/ UpsertCall
    \/ UpsertExcept
    \/ UpsertNext
    \/ UpsertReturn

SpecBatch == InitBatch /\ [][NextBatch]_vars

\* ------------------------ get_standard_details_impl, find_relevant_standards_impl
\* Largest length of the text handed to a tool.
MaxTextLen == 3

\* The argument of a tool call: the Gradio interface hands over a string,
\* the chat loop whatever value json.loads found in the model's tool call
\* (a string, a number, null).
ToolInputs ==
    {[type |-> "str", text |-> text] :
        text \in UNION {[1..n -> {"A", " "}] : n \in 0..MaxTextLen}}
    \cup {[type |-> "int", text |-> <<>>], [type |-> "None", text |-> <<>>]}

\* What PineconeClient() and the one call made on it do: the constructor
\* raises ValueError (no API key); the call raises PineconeException or
\* another exception, returns nothing (None, no hits), returns a result,
\* or returns a result json.dumps cannot serialise (lookup) or a hit
\* without _id (search, KeyError).
ClientBehaviours ==
    {"no_api_key", "pinecone_error", "other_error", "nothing", "result",
     "bad_result"}

\* json.dumps({"success": False, "results": [], "message": ..., "error_type": ...})
ErrorResponse(message, error_type) ==
    [success |-> FALSE, results |-> <<>>, message |-> message,
     error_type |-> error_type]

\* `if not value or not value.strip()` and what follows, run outside the
\* try block: "raised" for a value that is true and has no strip(),
\* "invalid" for an empty one, "valid" otherwise.
InputValidation(value) ==
    IF value.type = "None" THEN "invalid"
    ELSE IF value.type = "int" THEN "raised"
    ELSE IF value.text = <<>> \/ strip(value.text) = <<>> THEN "invalid"
    ELSE "valid"

\* The try block of either implementation: the exception handlers, the
\* branch for no result (`result is None`, `not results`) and the success
\* response.
TryBlock(behaviour, nothing_message, nothing_type, results, success_message) ==
    IF behaviour = "pinecone_error"
    THEN ErrorResponse("Pinecone API error: e", "api_error")
    ELSE IF behaviour \in {"no_api_key", "other_error", "bad_result"}
    THEN ErrorResponse("Unexpected error: e", "api_error")
    ELSE IF behaviour = "nothing"
    THEN ErrorResponse(nothing_message, nothing_type)
    ELSE [success |-> TRUE, results |-> results, message |-> success_message]

\* get_standard_details_impl(standard_id) with a client of this behaviour.
get_standard_details_impl(standard_id, behaviour) ==
    LET checked == InputValidation(standard_id)
    IN  [fn |-> "get_standard_details_impl", input |-> standard_id,
         behaviour |-> IF checked = "valid" THEN behaviour ELSE "none",
         raised |-> IF checked = "raised" THEN "AttributeError" ELSE "none",
         response |->
            IF checked = "raised" THEN <<>>
            ELSE IF checked = "invalid"
            THEN ErrorResponse("Standard ID cannot be empty", "invalid_input")
            ELSE TryBlock(behaviour, "Standard with GUID not found", "not_found",
                          <<[_id |-> strip(standard_id.text)]>>,
                          "Retrieved standard details"),
         contacted |-> checked = "valid",
         query |-> IF checked = "valid" /\ behaviour # "no_api_key"
                   THEN strip(standard_id.text) ELSE <<>>]

\* find_relevant_standards_impl(activity) with a client of this behaviour.
find_relevant_standards_impl(activity, behaviour) ==
    LET checked == InputValidation(activity)
    IN  [fn |-> "find_relevant_standards_impl", input |-> activity,
         behaviour |-> IF checked = "valid" THEN behaviour ELSE "none",
         raised |-> IF checked = "raised" THEN "AttributeError" ELSE "none",
         response |->
            IF checked = "raised" THEN <<>>
            ELSE IF checked = "invalid"
            THEN ErrorResponse("Activity description cannot be empty",
                               "invalid_input")
            ELSE TryBlock(behaviour, "No matching standards found", "no_results",
                          <<[_id |-> <<"A">>, score |-> 1]>>,
                          "Found 1 matching standards"),
         contacted |-> checked = "valid",
         query |-> IF checked = "valid" /\ behaviour # "no_api_key"
                   THEN strip(activity.text) ELSE <<>>]

\* A caller is about to call a tool with some argument.
InitTool ==
    /\ tool \in {[NoTool EXCEPT !.input = input] : input \in ToolInputs}
    /\ upsert = NoUpsert
    /\ other = <<>>
    /\ limiter = NoLimiter
    /\ request = NoRequest
    /\ cache = NoCache
    /\ command = NoCommand
    /\ to_upload = <<>>
    /\ levels = NoLevels
    /\ retry = NoRetry
    /\ tree = <<>>
    /\ document = FullDocument
    /\ FreshProcessor
    /\ ret = NoReturn
    /\ NoSave

\* What a tool call leaves alone.
ToolFrame ==
    UNCHANGED <<tree, id_to_standard, parent_to_children, leaf_nodes,
                root_nodes, pc, records, calls, result, first, walk,
                document, error, ret, files, save, to_upload, levels, retry,
                upsert, other, limiter, request, cache, command>>

\* get_standard_details(standard_id)
CallLookup ==
    /\ tool.fn = "none"
    /\ \E behaviour \in ClientBehaviours :
          tool' = get_standard_details_impl(tool.input, behaviour)
    /\ ToolFrame

\* find_relevant_standards(activity)
CallSearch ==
    /\ tool.fn = "none"
    /\ \E behaviour \in ClientBehaviours :
          tool' = find_relevant_standards_impl(tool.input, behaviour)
    /\ ToolFrame

NextTool == CallLookup \/ CallSearch

SpecTool == InitTool /\ [][NextTool]_vars

\* ------------------------------------------------------ _enforce_rate_limit
\* settings.max_requests_per_minute, scaled down; the most calls of
\* _enforce_rate_limit in a run; the latest clock value a call is made at.
MAX_REQUESTS_PER_MINUTE == 2
MaxRequests == 4
MaxClock == 130

\* The window of the limiter, in seconds.
Minute == 60

\* _enforce_rate_limit() called at clock value l.clock: the timestamps of
\* the last minute are kept; at the limit the call sleeps until the oldest
\* is a minute old and empties the list; `now`, read before the sleep, is
\* appended.  sent records the clock value at which the call returns, which
\* is when the request goes out.
_enforce_rate_limit(l) ==
    LET now    == l.clock
        recent == SelectSeq(l.timestamps, LAMBDA ts : now - ts < Minute)
    IN  IF Len(recent) >= MAX_REQUESTS_PER_MINUTE
        THEN LET sleep_time == Minute - (now - recent[1])
             IN  [timestamps |-> <<now>>,
                  clock |-> now + sleep_time,
                  sent |-> Append(l.sent, now + sleep_time)]
        ELSE [timestamps |-> Append(recent, now),
              clock |-> now,
              sent |-> Append(l.sent, now)]

\* The module as imported, no request made yet.
InitLimiter ==
    /\ limiter = NoLimiter
    /\ request = NoRequest
    /\ cache = NoCache
    /\ command = NoCommand
    /\ upsert = NoUpsert
    /\ tool = NoTool
    /\ other = <<>>
    /\ to_upload = <<>>
    /\ levels = NoLevels
    /\ retry = NoRetry
    /\ tree = <<>>
    /\ document = FullDocument
    /\ FreshProcessor
    /\ ret = NoReturn
    /\ NoSave

\* What the API client leaves alone.
ApiFrame ==
    UNCHANGED <<tree, id_to_standard, parent_to_children, leaf_nodes,
                root_nodes, pc, records, calls, result, first, walk,
                document, error, ret, files, save, to_upload, levels, retry,
                upsert, tool, other, command>>

\* Time passes between two requests.
Tick ==
    /\ \E seconds \in {30, 59, 60} :
          /\ limiter.clock + seconds <= MaxClock
          /\ limiter' = [limiter EXCEPT !.clock = @ + seconds]
    /\ UNCHANGED <<request, cache>>
    /\ ApiFrame

\* A request is about to be made: _enforce_rate_limit().
EnforceRateLimit ==
    /\ Len(limiter.sent) < MaxRequests
    /\ limiter' = _enforce_rate_limit(limiter)
    /\ UNCHANGED <<request, cache>>
    /\ ApiFrame

NextLimiter == Tick \/ EnforceRateLimit

SpecLimiter == InitLimiter /\ [][NextLimiter]_vars

\* -------------------------------------------------------------- _make_request
\* The largest max_retries a call is made with.
MaxAttempts == 3

\* The Retry-After header of a response: absent, a number of seconds, or an
\* HTTP date.
RetryAfterHeaders ==
    {[present |-> FALSE, text |-> ""],
     [present |-> TRUE, text |-> "2"],
     [present |-> TRUE, text |-> "Fri, 06 Nov 2026 07:28:00 GMT"]}

NoHeader == [present |-> FALSE, text |-> ""]

\* What requests.get can come back with: a Timeout, a ConnectionError, or a
\* response with a status code, a body that is JSON or not, and headers.
Responses ==
    {[kind |-> k, status |-> 0, json |-> FALSE, retry_after |-> NoHeader] :
        k \in {"Timeout", "ConnectionError"}}
    \cup {[kind |-> "response", status |-> 200, json |-> j, retry_after |-> NoHeader] :
            j \in BOOLEAN}
    \cup {[kind |-> "response", status |-> c, json |-> TRUE, retry_after |-> NoHeader] :
            c \in {401, 403, 404, 500}}
    \cup {[kind |-> "response", status |-> 429, json |-> TRUE, retry_after |-> h] :
            h \in RetryAfterHeaders}

\* int(text) of a header value: its number, or -1 where int raises ValueError.
IntOfText(text) == IF text = "2" THEN 2 ELSE -1

\* response.headers.get("Retry-After", 60), before int().
RetryAfter(response) ==
    IF response.retry_after.present THEN IntOfText(response.retry_after.text)
    ELSE Minute

\* One pass of the loop body of _make_request over the response resp: the
\* request record afterwards.  sleeps[k] is what the pass slept after the
\* k-th response (0 when it did not sleep).
Attempt(r, resp) ==
    LET seen       == [r EXCEPT !.log = Append(@, resp)]
        raise(e)   == [seen EXCEPT !.pc = "raised", !.error = e,
                                   !.sleeps = Append(@, 0)]
        again(t)   == [seen EXCEPT !.attempt = @ + 1, !.sleeps = Append(@, t)]
        backoff    == IF r.attempt < r.max_retries - 1
                      THEN again(2 ^ r.attempt)
                      ELSE raise("APIError")
    IN  CASE resp.kind \in {"Timeout", "ConnectionError"} -> backoff
          [] resp.status \in {401, 404} -> raise("APIError")
          [] resp.status = 429 ->
                IF RetryAfter(resp) < 0 THEN raise("ValueError")
                ELSE again(RetryAfter(resp))
          [] resp.status >= 400 /\ resp.status < 500 -> raise("APIError")
          [] resp.status >= 500 -> backoff
          [] OTHER ->
                IF resp.json
                THEN [seen EXCEPT !.pc = "returned", !.sleeps = Append(@, 0)]
                ELSE raise("JSONDecodeError")

\* _make_request has been called, with or without CSP_API_KEY in the
\* settings.
InitRequest ==
    /\ request \in {[NoRequest EXCEPT !.pc = "enter", !.api_key = k,
                                      !.max_retries = m] :
                       k \in BOOLEAN, m \in 0..MaxAttempts}
    /\ limiter = NoLimiter
    /\ cache = NoCache
    /\ command = NoCommand
    /\ upsert = NoUpsert
    /\ tool = NoTool
    /\ other = <<>>
    /\ to_upload = <<>>
    /\ levels = NoLevels
    /\ retry = NoRetry
    /\ tree = <<>>
    /\ document = FullDocument
    /\ FreshProcessor
    /\ ret = NoReturn
    /\ NoSave

\* headers = _get_headers(), before the loop.
GetHeaders ==
    /\ request.pc = "enter"
    /\ request' = IF request.api_key
                  THEN [request EXCEPT !.pc = "loop"]
                  ELSE [request EXCEPT !.pc = "raised", !.error = "ValueError"]
    /\ UNCHANGED <<limiter, cache>>
    /\ ApiFrame

\* One attempt: the rate limiter, the request, and what follows from the
\* response; time moves on by what the attempt slept.
RequestAttempt ==
    /\ request.pc = "loop"
    /\ request.attempt < request.max_retries
    /\ \E resp \in Responses :
          /\ request' = Attempt(request, resp)
          /\ limiter' = [_enforce_rate_limit(limiter) EXCEPT
                            !.clock = @ + request'.sleeps[Len(request'.sleeps)]]
    /\ UNCHANGED cache
    /\ ApiFrame

\* The loop ran out of attempts.
RequestExhausted ==
    /\ request.pc = "loop"
    /\ request.attempt >= request.max_retries
    /\ request' = [request EXCEPT !.pc = "raised", !.error = "APIError"]
    /\ UNCHANGED <<limiter, cache>>
    /\ ApiFrame

NextRequest == GetHeaders \/ RequestAttempt \/ RequestExhausted

SpecRequest == InitRequest /\ [][NextRequest]_vars

\* -------------------------------------------------------------- cached fetches
\* The three functions that fetch through a cache file.
CachedFetches ==
    {"get_jurisdictions", "get_jurisdiction_details", "download_standard_set"}

\* The "data" of a JSON document: the key is absent, its value is empty ({}
\* or []), or it is non-empty and the Pydantic model accepts it or not.
Datas == {"absent", "empty", "valid", "invalid"}

\* A cache file: missing, there but not to be opened (IOError), not UTF-8
\* (UnicodeDecodeError), not JSON (JSONDecodeError), or a JSON object.
CacheFiles ==
    {[state |-> st, data |-> "absent"] :
        st \in {"missing", "unreadable", "undecodable", "corrupt"}}
    \cup {[state |-> "json", data |-> d] : d \in Datas}

\* document.get("data", {}) / .get("data", []).
GetData(data) == IF data = "absent" THEN "empty" ELSE data

\* The parse at the end: StandardSet(**raw_data), JurisdictionDetails(
\* **raw_data), or [Jurisdiction(**j) for j in raw_data], which alone
\* accepts empty data.
Parsed(c) ==
    IF c.raw_data = "valid" \/ (c.raw_data = "empty" /\ c.fn = "get_jurisdictions")
    THEN [c EXCEPT !.pc = "returned"]
    ELSE [c EXCEPT !.pc = "raised", !.error = "ValidationError"]

\* One of the functions has been called; the default max_retries of
\* _make_request.
DefaultRequestRetries == 3

InitCache ==
    /\ \E fn \in CachedFetches, force \in BOOLEAN, k \in BOOLEAN, file \in CacheFiles :
          cache = [NoCache EXCEPT !.pc = "enter", !.fn = fn, !.force = force,
                                  !.force_refresh = force, !.api_key = k,
                                  !.before = file, !.file = file]
    /\ request = NoRequest
    /\ limiter = NoLimiter
    /\ command = NoCommand
    /\ upsert = NoUpsert
    /\ tool = NoTool
    /\ other = <<>>
    /\ to_upload = <<>>
    /\ levels = NoLevels
    /\ retry = NoRetry
    /\ tree = <<>>
    /\ document = FullDocument
    /\ FreshProcessor
    /\ ret = NoReturn
    /\ NoSave

\* Up to the call of _make_request: the cache is read unless force_refresh or
\* the file is missing; a file that cannot be opened or parsed turns
\* force_refresh on, the only exceptions caught being IOError and
\* JSONDecodeError.  With data from the cache the function parses it and is
\* done; otherwise _make_request is entered.
CacheRead ==
    /\ cache.pc = "enter"
    /\ LET reads  == ~cache.force_refresh /\ cache.file.state # "missing"
           failed == reads /\ cache.file.state \in {"unreadable", "corrupt"}
           read   == [cache EXCEPT
                        !.raw_data = IF reads /\ ~failed
                                     THEN GetData(cache.file.data) ELSE "empty",
                        !.force_refresh = @ \/ failed]
       IN  IF reads /\ cache.file.state = "undecodable"
           THEN /\ cache' = [cache EXCEPT !.pc = "raised",
                                          !.error = "UnicodeDecodeError"]
                /\ UNCHANGED request
           ELSE IF read.force_refresh \/ read.raw_data = "empty"
           THEN /\ cache' = [read EXCEPT !.pc = "fetching", !.requests = @ + 1]
                /\ request' = [NoRequest EXCEPT
                                  !.pc = "enter", !.api_key = cache.api_key,
                                  !.max_retries = DefaultRequestRetries]
           ELSE /\ cache' = Parsed(read)
                /\ UNCHANGED request
    /\ UNCHANGED limiter
    /\ ApiFrame

\* What writing the response to the cache file can come to: written; an
\* IOError before the file is opened for writing; an IOError amid the dump,
\* which leaves a file cut off anywhere, also within a character; a string of
\* the response that UTF-8 cannot encode (a lone surrogate), which is a
\* UnicodeEncodeError and no IOError.
Writes == {"ok", "not opened", "truncated", "cut in a character", "unencodable"}

\* From the end of _make_request on: its exception leaves the function; its
\* response gives raw_data and is written to the cache file, where an
\* IOError is logged only; then the data is parsed.
CacheStore ==
    /\ cache.pc = "fetching"
    /\ request.pc \in {"returned", "raised"}
    /\ IF request.pc = "raised"
       THEN cache' = [cache EXCEPT !.pc = "raised", !.error = request.error]
       ELSE \E data \in Datas, written \in Writes :
               LET stored == [cache EXCEPT
                   !.response = data,
                   !.raw_data = GetData(data),
                   !.write = IF written = "ok" THEN "ok" ELSE "failed",
                   !.file = CASE written = "ok" -> [state |-> "json", data |-> data]
                              [] written \in {"truncated", "unencodable"} ->
                                    [state |-> "corrupt", data |-> "absent"]
                              [] written = "cut in a character" ->
                                    [state |-> "undecodable", data |-> "absent"]
                              [] OTHER -> @]
               IN  cache' = IF written = "unencodable"
                            THEN [stored EXCEPT !.pc = "raised",
                                                !.error = "UnicodeEncodeError"]
                            ELSE Parsed(stored)
    /\ UNCHANGED <<request, limiter>>
    /\ ApiFrame

NextCache == CacheRead \/ NextRequest \/ CacheStore

SpecCache == InitCache /\ [][NextCache]_vars

\* ------------------------------------------------------------- pinecone-upload
\* The most set directories with a processed.json, and the most records in
\* one of them.
MaxSets == 2
MaxSetRecords == 2

\* A set directory as the command finds it: whether .pinecone_uploaded is
\* there, what loading processed.json comes to when the set's turn comes
\* (read, gone in the meantime, or not a ProcessedStandardSet), and how many
\* records it holds.  outcome, written, batches and done record what the
\* command did with the set.
SetDirs ==
    {[marker |-> m, file |-> f, records |-> n, already_uploaded |-> FALSE,
      outcome |-> "none", written |-> FALSE, batches |-> <<>>, done |-> 0] :
        m \in BOOLEAN, f \in {"ok", "missing", "invalid"}, n \in 0..MaxSetRecords}

\* The records of a set with n records.
SetRecords(n) == [k \in 1..n |-> RootRecord(k)]

\* pinecone-upload is run with --force or not and some --batch-size, over
\* the set directories 1..n.
InitUpload ==
    /\ \E n \in 0..MaxSets, force \in BOOLEAN, batch_size \in (-1)..MaxSetRecords :
          \E sets \in [1..n -> SetDirs] :
             command = [NoCommand EXCEPT !.pc = "discover", !.force = force,
                                         !.batch_size = batch_size,
                                         !.sets = sets]
    /\ upsert = NoUpsert
    /\ retry = NoRetry
    /\ to_upload = <<>>
    /\ cache = NoCache
    /\ request = NoRequest
    /\ limiter = NoLimiter
    /\ tool = NoTool
    /\ other = <<>>
    /\ levels = NoLevels
    /\ tree = <<>>
    /\ document = FullDocument
    /\ FreshProcessor
    /\ ret = NoReturn
    /\ NoSave

\* What the command leaves alone.
UploadFrame ==
    UNCHANGED <<tree, id_to_standard, parent_to_children, leaf_nodes,
                root_nodes, pc, records, calls, result, first, walk,
                document, error, ret, files, save, levels, tool, other,
                limiter, request, cache>>

\* Discovery up to the upload loop: every set is flagged as already uploaded
\* when its marker is there and --force is not given; --set-id (0 for none)
\* keeps one set; without --set-id and --all the user is asked; --dry-run
\* returns after the preview.
UploadDiscover ==
    /\ command.pc = "discover"
    /\ \E set_id \in 0..MaxSets, all \in BOOLEAN, confirm \in BOOLEAN,
          dry_run \in BOOLEAN :
          LET flagged == [k \in DOMAIN command.sets |->
                            [command.sets[k] EXCEPT !.already_uploaded =
                                ~command.force /\ command.sets[k].marker]]
              found    == [k \in DOMAIN command.sets |-> k]
              selected == IF set_id = 0 THEN found
                          ELSE SelectSeq(found, LAMBDA sid : sid = set_id)
              returns  == \/ selected = <<>>
                          \/ set_id = 0 /\ ~all /\ ~confirm
                          \/ dry_run
          IN  command' = [command EXCEPT
                             !.sets = flagged,
                             !.sets_to_upload = selected,
                             !.pc = IF returns THEN "returned" ELSE "loop",
                             !.i = 1]
    /\ UNCHANGED <<to_upload, upsert, retry>>
    /\ UploadFrame

\* The loop body up to the call of batch_upsert: a flagged set is skipped;
\* a processed.json that cannot be loaded counts as failed; a set without
\* records is skipped; otherwise batch_upsert is entered with the records.
UploadSet ==
    /\ command.pc = "loop"
    /\ command.i <= Len(command.sets_to_upload)
    /\ LET sid  == command.sets_to_upload[command.i]
           sdir == command.sets[sid]
           next(outcome) == [command EXCEPT !.sets[sid].outcome = outcome,
                                            !.i = @ + 1]
       IN  IF sdir.already_uploaded /\ ~command.force
           THEN /\ command' = [next("skipped") EXCEPT !.skipped_count = @ + 1]
                /\ UNCHANGED <<to_upload, upsert, retry>>
           ELSE IF sdir.file # "ok"
           THEN /\ command' = [next("failed") EXCEPT !.failed_count = @ + 1]
                /\ UNCHANGED <<to_upload, upsert, retry>>
           ELSE IF sdir.records = 0
           THEN /\ command' = [next("skipped") EXCEPT !.skipped_count = @ + 1]
                /\ UNCHANGED <<to_upload, upsert, retry>>
           ELSE /\ command' = [command EXCEPT !.pc = "upserting"]
                /\ to_upload' = SetRecords(sdir.records)
                /\ upsert' = [NoUpsert EXCEPT !.pc = "enter",
                                              !.batch_size = command.batch_size]
                /\ retry' = NoRetry
    /\ UploadFrame

\* batch_upsert is over: its exception counts the set as failed; after its
\* return mark_uploaded writes the marker and the set counts as uploaded,
\* unless the marker cannot be written (OSError), which counts as failed.
UploadMark ==
    /\ command.pc = "upserting"
    /\ upsert.pc \in {"returned", "raised"}
    /\ LET sid == command.sets_to_upload[command.i]
           after == [command EXCEPT !.pc = "loop", !.i = @ + 1,
                                    !.sets[sid].batches = upsert.sent,
                                    !.sets[sid].done = upsert.done]
           failed == [after EXCEPT !.sets[sid].outcome = "failed",
                                   !.failed_count = @ + 1]
       IN  IF upsert.pc = "raised" THEN command' = failed
           ELSE \/ command' = [after EXCEPT !.sets[sid].outcome = "uploaded",
                                            !.sets[sid].marker = TRUE,
                                            !.sets[sid].written = TRUE,
                                            !.uploaded_count = @ + 1]
                \/ command' = failed
    /\ UNCHANGED <<to_upload, upsert, retry>>
    /\ UploadFrame

\* The loop is over: the summary is printed.
UploadSummary ==
    /\ command.pc = "loop"
    /\ command.i > Len(command.sets_to_upload)
    /\ command' = [command EXCEPT !.pc = "summary"]
    /\ UNCHANGED <<to_upload, upsert, retry>>
    /\ UploadFrame

NextUpload ==
    \/ UploadDiscover
    \/ UploadSet
    \/ NextBatch
    \/ UploadMark
    \/ UploadSummary

SpecUpload == InitUpload /\ [][NextUpload]_vars

\* ================================================================== claims
\* The records produced so far, each beside the standard it was made from.
Produced == DOMAIN records

\* C1: in every tree, cycles and self-loops included, a find_root_id or
\* build_ordered_ancestors walk executes its loop body at most
\* (number of nodes + 1) times, and after that many executions it has left
\* the loop.
C1_WalksTerminateWithinTreeSize ==
    /\ walk.steps <= Len(tree) + 1
    /\ walk.steps = Len(tree) + 1 => walk.done

\* find_root_id has walked a cycle through every node of a full tree: it
\* left the loop in its (number of nodes + 1)th execution of the body.
C1_Witness ==
    /\ Len(tree) = MaxNodes
    /\ walk.done
    /\ walk.kind = "find_root"
    /\ walk.steps = Len(tree) + 1
    /\ walk.visited = Keys(tree)

\* C2 as stated: every record of a node with a non-null parentId has
\* ancestor_ids ending in that parentId and starting with root_id.
C2_Original ==
    \A i \in Produced :
        tree[i].parentId # None =>
            /\ records[i].ancestor_ids # <<>>
            /\ records[i].ancestor_ids[Len(records[i].ancestor_ids)] = tree[i].parentId
            /\ records[i].ancestor_ids[1] = records[i].root_id

\* C2 amended: every record of a node whose parentId is the id of a node of
\* the tree has ancestor_ids ending in that parentId and starting with
\* root_id; a node whose parentId is the id of no node has ancestor_ids = []
\* and is its own root_id.
C2_ParentInTree ==
    \A i \in Produced :
        /\ tree[i].parentId \in Keys(tree) =>
            /\ records[i].ancestor_ids # <<>>
            /\ records[i].ancestor_ids[Len(records[i].ancestor_ids)] = tree[i].parentId
            /\ records[i].ancestor_ids[1] = records[i].root_id
        /\ (tree[i].parentId # None /\ tree[i].parentId \notin Keys(tree)) =>
            /\ records[i].ancestor_ids = <<>>
            /\ records[i].root_id = tree[i].id

\* The record of a node two levels below a root has been produced: its
\* ancestor_ids are [root, parent].
C2_Witness ==
    \E i \in Produced :
        /\ Len(records[i].ancestor_ids) = 2
        /\ records[i].root_id \in root_nodes
        /\ tree[i].parentId \in Keys(tree)

\* C3 as stated: ancestor_ids is empty exactly for the roots (is_root), and
\* when it is not empty its first element is the root.
C3_Original ==
    \A i \in Produced :
        /\ (records[i].ancestor_ids = <<>>) <=> records[i].is_root
        /\ records[i].ancestor_ids # <<>> =>
              records[i].ancestor_ids[1] = records[i].root_id

\* C3 amended: ancestor_ids is empty exactly when parentId is null or is the
\* id of no node of the tree; when it is not empty its first element is the
\* record's root_id.
C3_EmptyIffNoParentInTree ==
    \A i \in Produced :
        /\ (records[i].ancestor_ids = <<>>) <=>
              (tree[i].parentId = None \/ tree[i].parentId \notin Keys(tree))
        /\ records[i].ancestor_ids # <<>> =>
              records[i].ancestor_ids[1] = records[i].root_id

\* A root, a node with a dangling parentId and a node with an ancestor have
\* all been transformed in one tree.
C3_Witness ==
    /\ \E i \in Produced : records[i].is_root /\ records[i].ancestor_ids = <<>>
    /\ \E i \in Produced : ~records[i].is_root /\ records[i].ancestor_ids = <<>>
    /\ \E i \in Produced : records[i].ancestor_ids # <<>>

\* C4: the record of a node whose parentId is null has is_root = true,
\* parent_id = null, ancestor_ids = [] and root_id = its own id.
C4_RootRecord ==
    \A i \in Produced :
        tree[i].parentId = None =>
            /\ records[i].is_root
            /\ records[i].parent_id = None
            /\ records[i].ancestor_ids = <<>>
            /\ records[i].root_id = tree[i].id

\* The record of a root that has a child has been produced.
C4_Witness ==
    \E i \in Produced :
        /\ tree[i].parentId = None
        /\ records[i].child_ids # <<>>

\* C5 as stated: is_leaf holds exactly when no other node has the node's id
\* as its parentId, the node's own parentId not being counted.
C5_Original ==
    \A i \in Produced :
        records[i].is_leaf <=>
            ~\E j \in DOMAIN tree : j # i /\ tree[j].parentId = tree[i].id

\* C5 amended: is_leaf holds exactly when no node of the tree, the node
\* itself included, has the node's id as its parentId.
C5_LeafIffNeverAParent ==
    \A i \in Produced :
        records[i].is_leaf <=>
            ~\E j \in DOMAIN tree : tree[j].parentId = tree[i].id

\* A leaf, a node that is the parent of another node, and a node that is
\* only its own parent have been transformed in one tree.
C5_Witness ==
    /\ \E i \in Produced : records[i].is_leaf
    /\ \E i \in Produced :
          /\ ~records[i].is_leaf
          /\ \E j \in DOMAIN tree : j # i /\ tree[j].parentId = tree[i].id
    /\ \E i \in Produced :
          /\ ~records[i].is_leaf
          /\ ~\E j \in DOMAIN tree : j # i /\ tree[j].parentId = tree[i].id

\* C6 as stated: child_ids of a record never contains the record's own id.
C6_ChildIdsExcludeSelf ==
    \A i \in Produced :
        \A k \in DOMAIN records[i].child_ids :
            records[i].child_ids[k] # records[i].id

\* C7: a record with is_leaf = true has an empty child_ids.
C7_LeafHasNoChildren ==
    \A i \in Produced : records[i].is_leaf => records[i].child_ids = <<>>

\* A leaf and a node with a non-empty child_ids have been transformed in one
\* tree.
C7_Witness ==
    /\ \E i \in Produced : records[i].is_leaf /\ records[i].child_ids = <<>>
    /\ \E i \in Produced : ~records[i].is_leaf /\ records[i].child_ids # <<>>

\* The list l holds exactly the nodes whose parentId is p, each once, in
\* ascending position, nodes of equal position in the tree's iteration order.
ListsChildrenInOrder(l, p) ==
    /\ {l[k] : k \in DOMAIN l} =
          {tree[i].id : i \in {j \in DOMAIN tree : tree[j].parentId = p}}
    /\ \A a, b \in DOMAIN l : a < b =>
          LET ia == IndexOf(tree, l[a])
              ib == IndexOf(tree, l[b])
          IN  \/ tree[ia].position < tree[ib].position
              \/ /\ tree[ia].position = tree[ib].position
                 /\ ia < ib

\* C8: once the maps are built, parent_to_children has one key per parentId
\* value of the tree (null included), each key's list holds exactly the nodes
\* with that parentId in ascending position, equal positions in iteration
\* order; and so does every record's child_ids for the record's id.
C8_ChildrenSortedStably ==
    /\ pc = "transform" =>
          /\ DOMAIN parent_to_children = {tree[i].parentId : i \in DOMAIN tree}
          /\ \A p \in DOMAIN parent_to_children :
                ListsChildrenInOrder(parent_to_children[p], p)
    /\ \A i \in Produced : ListsChildrenInOrder(records[i].child_ids, records[i].id)

\* Three roots met at positions 3, 1, 2 are listed under the null key as
\* [root at 1, root at 2, root at 3].
C8_Witness ==
    /\ pc = "transform"
    /\ Len(tree) = 3
    /\ <<tree[1].position, tree[2].position, tree[3].position>> = <<3, 1, 2>>
    /\ None \in DOMAIN parent_to_children
    /\ parent_to_children[None] = <<tree[2].id, tree[3].id, tree[1].id>>

\* C9: the records built so far are those of the first nodes of the tree in
\* iteration order; the returned list has exactly one record per node, in
\* iteration order, each with its node's id, and no id twice.
C9_OneRecordPerNodeInOrder ==
    /\ Len(records) <= Len(tree)
    /\ \A i \in Produced : records[i].id = tree[i].id
    /\ calls >= 1 =>
          /\ Len(result) = Len(tree)
          /\ \A i \in DOMAIN result : result[i].id = tree[i].id
          /\ \A i, j \in DOMAIN result : i # j => result[i].id # result[j].id

\* A call on a full tree whose ids are not met in ascending order has
\* returned.
C9_Witness ==
    /\ calls >= 1
    /\ Len(result) = MaxNodes
    /\ result[1].id > result[2].id

\* C10: the list returned by a later call on the same tree, on the same
\* processor or on a new one, equals the list the first call returned.
C10_SameTreeSameRecords ==
    calls >= 2 => result = first

\* A second call on a full tree with a parent and its children has returned.
C10_Witness ==
    /\ calls = 2
    /\ pc = "idle"
    /\ Len(result) = MaxNodes
    /\ \E i \in DOMAIN result : Len(result[i].child_ids) = 2

\* The parentId of the node with this id; None for an id no node has.
ParentOf(id) == IF id \in Keys(tree) THEN Get(tree, id).parentId ELSE None

\* The id reached from id by n steps along parentId.
RECURSIVE Up(_, _)
Up(id, n) == IF n = 0 THEN id ELSE ParentOf(Up(id, n - 1))

\* The node's parentId chain comes back to the node.
OnCycle(id) == id \in Keys(tree) /\ \E n \in 1..Len(tree) : Up(id, n) = id

\* The node's parentId is the id of no node.
Dangles(id) == ParentOf(id) # None /\ ParentOf(id) \notin Keys(tree)

\* The walk up from the node runs into a cycle.
LeadsToCycle(id) == \E n \in 0..Len(tree) : OnCycle(Up(id, n))

\* The first node of that cycle the walk reaches.
CycleEntry(id) ==
    Up(id, CHOOSE n \in 0..Len(tree) :
              /\ OnCycle(Up(id, n))
              /\ \A m \in 0..(n - 1) : ~OnCycle(Up(id, m)))

\* C11: on a set with a dangling parentId or a parent cycle (and a document
\* with id and valid) process_standard_set raises no exception, and the list
\* it returns has a record for every node.
C11_AnomaliesRaiseNothing ==
    (\E i \in DOMAIN tree : Dangles(tree[i].id) \/ OnCycle(tree[i].id)) =>
        /\ pc # "raised"
        /\ error = "none"
        /\ calls >= 1 =>
              \A i \in DOMAIN tree : \E j \in DOMAIN result : result[j].id = tree[i].id

\* A call has returned the records of a full set that has a dangling
\* parentId, a cycle and a node whose parent dangles.
C11_Witness ==
    /\ calls >= 1
    /\ Len(result) = MaxNodes
    /\ \E i \in DOMAIN tree : Dangles(tree[i].id)
    /\ \E i \in DOMAIN tree : OnCycle(tree[i].id)
    /\ \E i \in DOMAIN tree : ParentOf(tree[i].id) \in Keys(tree)
                                 /\ Dangles(ParentOf(tree[i].id))

\* C12 as stated: the root_id find_root_id gives a node whose chain runs
\* into a cycle is the id of the first node of the cycle the walk reaches.
C12_Original ==
    \A i \in Produced :
        LeadsToCycle(tree[i].id) => records[i].root_id = CycleEntry(tree[i].id)

\* C12 amended: find_root_id returns the node at which the walk meets a
\* visited parentId: the start node itself when it lies on the cycle, and for
\* a start node outside the cycle the node of the cycle whose parentId is the
\* cycle-entry node (the last node of the cycle the walk reaches).
C12_RootIsWhereCycleIsDetected ==
    \A i \in Produced :
        LeadsToCycle(tree[i].id) =>
            IF OnCycle(tree[i].id)
            THEN records[i].root_id = tree[i].id
            ELSE /\ OnCycle(records[i].root_id)
                 /\ ParentOf(records[i].root_id) = CycleEntry(tree[i].id)

\* The records of a node outside a cycle of two nodes, whose parent is on
\* the cycle, and of the two nodes of the cycle have been produced.
C12_Witness ==
    /\ Len(records) = MaxNodes
    /\ \E i \in Produced :
          /\ ~OnCycle(tree[i].id)
          /\ LeadsToCycle(tree[i].id)
          /\ records[i].root_id # CycleEntry(tree[i].id)
    /\ \E i \in Produced : OnCycle(tree[i].id) /\ records[i].root_id = tree[i].id

\* The line the claim gives for one entry of the chain.
ExpectedLine(entry) ==
    IF entry.statementNotation = NoneStr \/ entry.statementNotation = ""
    THEN "Depth " \o ToString(entry.depth) \o ": " \o entry.description
    ELSE "Depth " \o ToString(entry.depth) \o " (" \o entry.statementNotation
            \o "): " \o entry.description

\* The lines, a single newline between each two.
RECURSIVE NewlineJoined(_)
NewlineJoined(lines) ==
    IF Len(lines) = 1 THEN Head(lines)
    ELSE Head(lines) \o "\n" \o NewlineJoined(Tail(lines))

\* C13: the content text of a node is the lines of its ancestors, in the
\* order of ancestor_ids (root first, immediate parent last), then its own
\* line, joined by single newlines; each line is 'Depth <depth>:
\* <description>' for an entry without notation or with an empty one and
\* 'Depth <depth> (<notation>): <description>' otherwise, from the entry's
\* own depth, notation and description.
C13_ContentIsChainOfLines ==
    (ret.fn = "_build_content_text" /\ error = "none") =>
        LET node  == tree[ret.arg]
            chain == build_ordered_ancestors(node, id_to_standard) \o <<node.id>>
        IN  ret.value =
               NewlineJoined([k \in DOMAIN chain |-> ExpectedLine(Get(tree, chain[k]))])

\* The three-node chain: a root without notation, a child with an empty
\* notation and a grandchild with a notation; the content of the grandchild
\* has been built.
C13_Witness ==
    /\ ret.fn = "_build_content_text"
    /\ Len(tree) = 3
    /\ tree[ret.arg].statementNotation = "1.A"
    /\ ret.value = "Depth 0: S1\nDepth 1: S2\nDepth 2 (1.A): S3"
    /\ \E i \in DOMAIN tree : tree[i].statementNotation = ""

\* The keys of a record's JSON object whose value is a string or null.
StringKeys ==
    {"content", "document_id", "document_valid", "asn_identifier",
     "statement_notation", "statement_label"}

\* C14 as stated: in every record object of a processed.json that
\* process_and_save wrote, statement_notation is no key when the node has no
\* notation, statement_label is no key when it has no label, parent_id is a
\* key with value null when the node is a root, and no key but parent_id
\* has the value null.
C14_AbsentFieldsAreNoKeys ==
    files.processed.kind = "written" =>
        \A i \in DOMAIN files.processed.records :
            LET object == files.processed.records[i]
                node   == tree[i]
            IN  /\ Falsy(node.statementNotation) =>
                      "statement_notation" \notin DOMAIN object
                /\ Falsy(node.statementLabel) =>
                      "statement_label" \notin DOMAIN object
                /\ node.parentId = None =>
                      "parent_id" \in DOMAIN object /\ object.parent_id = None
                /\ \A k \in DOMAIN object \cap StringKeys : object[k] # NoneStr

OmittedWhenNone ==
    {"asn_identifier", "statement_notation", "statement_label",
     "normalized_subject", "publication_status"}

\* A dict of _record_to_dict (either copy) is in ret.
DictReturned == ret.fn \in {"_record_to_dict", "src._record_to_dict"}

InputPieces ==
    {p \in (DOMAIN levels.input) \X (1..(MaxLevelLen + 1)) \X (0..MaxLevelLen) :
        LET str == levels.input[p[1]]
        IN  /\ p[2] <= p[3] + 1
            /\ p[3] <= Len(str)
            /\ p[2] = 1 \/ str[p[2] - 1] = ","
            /\ p[3] = Len(str) \/ str[p[3] + 1] = ","
            /\ \A c \in p[2]..p[3] : str[c] # ","}

\* A piece without the blanks at its ends.
Trimmed(p) ==
    LET str    == levels.input[p[1]]
        filled == {c \in p[2]..p[3] : str[c] # " "}
    IN  IF filled = {} THEN <<>>
        ELSE SubSeq(str, CHOOSE c \in filled : \A d \in filled : c <= d,
                         CHOOSE c \in filled : \A d \in filled : c >= d)

\* Piece p comes before piece q in the input.
Before(p, q) == p[1] < q[1] \/ (p[1] = q[1] /\ p[2] < q[2])

\* C16: once validated, education_levels holds exactly the trimmed,
\* non-empty comma-separated pieces of the input's strings, each once, in the
\* order of their first occurrence; so it has no duplicate, no empty string
\* and no comma, and a further pass of the validator leaves it unchanged.
C16_SplitTrimmedDeduplicated ==
    levels.passes >= 1 =>
        LET out == levels.value
        IN  /\ {out[i] : i \in DOMAIN out} = {Trimmed(p) : p \in InputPieces} \ {<<>>}
            /\ \A i, j \in DOMAIN out : i # j => out[i] # out[j]
            /\ \A i \in DOMAIN out :
                  out[i] # <<>> /\ \A c \in DOMAIN out[i] : out[i][c] # ","
            /\ \A i, j \in DOMAIN out : i < j =>
                  \E p \in InputPieces :
                      /\ Trimmed(p) = out[i]
                      /\ \A q \in InputPieces : Trimmed(q) = out[j] => Before(p, q)
            /\ levels.passes >= 2 => process_education_levels(out) = out

\* [",2 ", "2,1"] has gone through the validator twice and is ["2", "1"].
C16_Witness ==
    /\ levels.passes = 2
    /\ levels.input = << <<",", "2", " ">>, <<"2", ",", "1">> >>
    /\ levels.value = << <<"2">>, <<"1">> >>

\* C17: with the map built from the whole tree, _compute_sibling_count of a
\* node is the number of other nodes with the node's parentId (for a root:
\* of other roots); with a map that has no key for the node's parentId it
\* is 0.
C17_SiblingCount ==
    ret.fn = "_compute_sibling_count" =>
        LET node == tree[ret.arg]
        IN  /\ parent_to_children = _build_parent_to_children_map(tree) =>
                  ret.value = Cardinality({j \in DOMAIN tree :
                                             /\ j # ret.arg
                                             /\ tree[j].parentId = node.parentId})
            /\ node.parentId \notin DOMAIN parent_to_children => ret.value = 0

\* The count of a root of a set of three roots, map built from the set, has
\* been returned: 2.
C17_Witness ==
    /\ ret.fn = "_compute_sibling_count"
    /\ Len(tree) = 3
    /\ parent_to_children = _build_parent_to_children_map(tree)
    /\ tree[ret.arg].parentId = None
    /\ ret.value = 2

\* C18 as stated: the failure of one node's transformation does not end
\* process_standard_set (which has no fail-fast option) while nodes after
\* the failed one are still to be transformed.
C18_RemainingNodesTransformed ==
    pc = "raised" => Len(records) + 1 >= Len(tree)

\* A failure that is not to be retried: a PineconeException with a 4xx
\* status other than 429, or an exception of another class.
Permanent(outcome) ==
    \/ outcome.kind = "other"
    \/ /\ outcome.kind = "pinecone"
       /\ outcome.status \in 400..499
       /\ outcome.status # 429

\* C20: after a call of func that ended in a permanent failure,
\* exponential_backoff_retry calls func no more and sleeps no more (func has
\* been called once per attempt, and every sleep followed an earlier,
\* transient failure), and it raises that same exception.
C20_PermanentFailureRaisesAtOnce ==
    Permanent(retry.last) =>
        /\ retry.pc \in {"except", "raised"}
        /\ retry.calls = retry.attempt + 1
        /\ Len(retry.sleeps) = retry.attempt
        /\ retry.pc = "raised" => retry.outcome = retry.last

\* With max_retries = 3 the first call of func has raised a
\* PineconeException of status 400, which has been re-raised after that one
\* call and no sleep.
C20_Witness ==
    /\ retry.pc = "raised"
    /\ retry.max_retries = 3
    /\ retry.outcome = [kind |-> "pinecone", status |-> 400]
    /\ retry.calls = 1
    /\ retry.sleeps = <<>>

\* The sleep the claim gives before the k-th retry: min(2^(k-1), 60).
ClaimedSleep(k) == IF 2 ^ (k - 1) < 60 THEN 2 ^ (k - 1) ELSE 60

\* exponential_backoff_retry has ended.
RetryEnded == retry.pc \in {"returned", "raised"}

\* C21 as stated: func is called at most max_retries times; the sleep before
\* the k-th retry is min(2^(k-1), 60) seconds, one sleep per retry; a
\* successful call ends the invocation with its result and no further call;
\* when all max_retries calls failed the last exception is raised; and every
\* invocation ends with func's result or with an exception.
C21_RetryContract ==
    /\ retry.calls <= retry.max_retries
    /\ \A k \in DOMAIN retry.sleeps : retry.sleeps[k] = ClaimedSleep(k)
    /\ retry.pc = "loop" => Len(retry.sleeps) = retry.calls
    /\ retry.pc # "loop" => Len(retry.sleeps) = retry.calls - 1
    /\ retry.last.kind = "ok" => retry.pc = "returned" /\ retry.outcome = retry.last
    /\ (retry.pc = "raised") =>
          /\ retry.outcome = retry.last
          /\ retry.last.kind \in {"pinecone", "other"}
    /\ (retry.pc = "loop" /\ retry.calls >= 1) => Retryable(retry.last.status)
    /\ RetryEnded =>
          \/ retry.pc = "returned" /\ retry.outcome.kind = "ok" /\ retry.calls >= 1
          \/ retry.pc = "raised"

\* The same contract without its last clause failing: what holds of the
\* invocations with max_retries >= 1.
C21_HoldsFromOneRetry == retry.max_retries >= 1 => C21_RetryContract

\* The batches one after the other.
RECURSIVE Concatenated(_)
Concatenated(batches) ==
    IF batches = <<>> THEN <<>>
    ELSE Head(batches) \o Concatenated(Tail(batches))

\* The input list as upsert_records receives its records.
InputDicts == [k \in DOMAIN to_upload |-> _record_to_dict(to_upload[k])]

\* C22 as stated: every batch sent has at most batch_size records; the
\* batches sent so far, in send order, are the input list up to some record,
\* and the whole input list once batch_upsert has returned; the only batch
\* that can be amid its retry sequence is the last one sent, and a batch is
\* first attempted only when the retry sequences of all batches before it
\* ended in success; after a failed retry sequence batch_upsert has ended,
\* that batch being the last one sent.
C22_BatchesAreConsecutiveSlices ==
    LET sent == upsert.sent
        flat == Concatenated(sent)
    IN  /\ \A k \in DOMAIN sent : Len(sent[k]) <= upsert.batch_size
        /\ Len(flat) <= Len(InputDicts)
        /\ flat = SubSeq(InputDicts, 1, Len(flat))
        /\ upsert.pc = "returned" => flat = InputDicts
        /\ upsert.done <= Len(sent)
        /\ Len(sent) <= upsert.done + 1
        /\ (retry.pc \in {"loop", "except"} /\ retry.calls >= 1) =>
              /\ Len(sent) = upsert.done + 1
              /\ retry.batch = sent[Len(sent)]
        /\ retry.pc = "raised" =>
              /\ upsert.pc = "raised"
              /\ Len(sent) = upsert.done + 1

\* The same, of the calls with batch_size >= 1.
C22_HoldsForPositiveBatchSize ==
    upsert.batch_size >= 1 => C22_BatchesAreConsecutiveSlices

\* Three records have gone out in two batches of sizes 2 and 1, the first
\* after a retry.
C22_Reached ==
    /\ upsert.pc = "returned"
    /\ upsert.batch_size = 2
    /\ Len(to_upload) = 3
    /\ Len(upsert.sent) = 2
    /\ upsert.pauses = 1

\* The argument is an empty or whitespace-only string, or is missing.
Blank(input) == \A k \in DOMAIN input.text : input.text[k] = " "

\* C23 as stated: a tool implementation raises nothing and returns an
\* object with the keys success, results and message; for a blank argument
\* it is success=false with error_type invalid_input and Pinecone is not
\* contacted; a missing standard gives not_found and an empty hit list
\* no_results; an exception of the client gives api_error; and success=false
\* always comes with results = [].
C23_ToolsNeverRaise ==
    tool.fn # "none" =>
        /\ tool.raised = "none"
        /\ {"success", "results", "message"} \subseteq DOMAIN tool.response
        /\ (tool.input.type # "int" /\ Blank(tool.input)) =>
              /\ ~tool.response.success
              /\ tool.response.error_type = "invalid_input"
              /\ ~tool.contacted
        /\ tool.behaviour = "nothing" =>
              /\ ~tool.response.success
              /\ tool.response.error_type =
                    IF tool.fn = "get_standard_details_impl"
                    THEN "not_found" ELSE "no_results"
        /\ tool.behaviour \in {"no_api_key", "pinecone_error", "other_error",
                               "bad_result"} =>
              /\ ~tool.response.success
              /\ tool.response.error_type = "api_error"
        /\ ~tool.response.success => tool.response.results = <<>>
        /\ tool.response.success <=> tool.behaviour = "result"

\* The same, of the calls whose argument is a string or None.
C23_HoldsForStrings == tool.input.type # "int" => C23_ToolsNeverRaise

\* The four maps of the processor.
maps == <<id_to_standard, parent_to_children, leaf_nodes, root_nodes>>

\* The four maps are those _build_relationship_maps builds from the tree.
MapsBuilt ==
    /\ id_to_standard = _build_id_to_standard_map(tree)
    /\ parent_to_children = _build_parent_to_children_map(tree)
    /\ leaf_nodes = _identify_leaf_nodes(tree)
    /\ root_nodes = _identify_root_nodes(tree)

\* C24: the maps change only in a step taken outside the loop (the build at
\* the start of a call, a new processor); whenever a node is transformed or
\* the call returns the maps are the ones built from the whole tree, and
\* that step leaves them as they are.
C24_MapsBuiltOnceBeforeTransform ==
    [][/\ maps' # maps => pc = "idle"
       /\ pc = "transform" => (MapsBuilt /\ maps' = maps)]_vars

\* A later call on a used processor has transformed two nodes of a full
\* tree with the maps built from the whole tree.
C24_Witness ==
    /\ pc = "transform"
    /\ calls = 1
    /\ Len(tree) = MaxNodes
    /\ Len(records) = 2
    /\ MapsBuilt
    /\ Cardinality(DOMAIN id_to_standard) = MaxNodes

\* C25: after a call on another tree, the processor builds for the tree
\* the records a new processor built for it in the first call, node by
\* node, with the maps of the tree alone, and returns that same list.
C25_NoStateCrossesInvocations ==
    other # <<>> =>
        /\ calls >= 1
        /\ pc = "transform" => MapsBuilt
        /\ \A i \in Produced : records[i] = first[i]
        /\ calls >= 2 => result = first

\* A used processor has returned the records of a full tree after a call on
\* another tree that gave one of the tree's ids another parentId; they are
\* the records of the first call.
C25_Witness ==
    /\ calls = 2
    /\ pc = "idle"
    /\ other # <<>>
    /\ MapsBuilt
    /\ Len(result) = MaxNodes
    /\ other[1].id \in Keys(tree)
    /\ Get(tree, other[1].id).parentId # other[1].parentId
    /\ result = first

\* The requests that went out in the minute beginning at clock value from.
SentInMinuteFrom(from) ==
    {k \in DOMAIN limiter.sent :
        limiter.sent[k] >= from /\ limiter.sent[k] < from + Minute}

\* C27 as stated: in no 60-second window (it is enough to look at those
\* beginning with a request) have more than MAX_REQUESTS_PER_MINUTE requests
\* been let through, and _request_timestamps holds at most
\* MAX_REQUESTS_PER_MINUTE entries after every call.
C27_RateLimited ==
    /\ \A k \in DOMAIN limiter.sent :
          Cardinality(SentInMinuteFrom(limiter.sent[k])) <= MAX_REQUESTS_PER_MINUTE
    /\ Len(limiter.timestamps) <= MAX_REQUESTS_PER_MINUTE

\* The part of C27 about the list.
C27_ListStaysShort == Len(limiter.timestamps) <= MAX_REQUESTS_PER_MINUTE

\* _make_request is over.
RequestEnded == request.pc \in {"returned", "raised"}

\* The k-th response is one the code retries with exponential backoff.
Transient(k) ==
    \/ request.log[k].kind \in {"Timeout", "ConnectionError"}
    \/ request.log[k].status >= 500

\* The k-th response is a 4xx other than 429.
ClientError(k) ==
    /\ request.log[k].status >= 400
    /\ request.log[k].status < 500
    /\ request.log[k].status # 429

\* What C26 says of a call, in terms of its responses so far.
RequestContract ==
    /\ Len(request.log) <= request.max_retries
    /\ RequestEnded => request.pc = "returned" \/ request.error = "APIError"
    /\ \A k \in DOMAIN request.log :
          /\ ClientError(k) =>
                /\ k = Len(request.log)
                /\ request.pc = "raised"
                /\ request.error = "APIError"
          /\ Transient(k) =>
                IF k < request.max_retries
                THEN request.sleeps[k] = 2 ^ (k - 1) /\ request.attempt >= k
                ELSE request.pc = "raised" /\ request.error = "APIError"
          /\ request.log[k].status = 429 =>
                /\ request.sleeps[k] = RetryAfter(request.log[k])
                /\ request.attempt >= k

\* C26 as stated: _make_request sends at most max_retries requests and ends
\* by returning the parsed response or raising APIError; a 4xx other than
\* 429 raises APIError after that one request; a 5xx, timeout or connection
\* error is retried after 2^attempt seconds and raises APIError at the last
\* attempt; a 429 takes one attempt after waiting Retry-After seconds.
C26_ReturnsOrRaisesAPIError == RequestContract

\* The call had its API key, every 2xx body was JSON and every Retry-After
\* header a number.
WellFormedResponses ==
    /\ request.api_key
    /\ \A k \in DOMAIN request.log :
          /\ request.log[k].status = 200 => request.log[k].json
          /\ RetryAfter(request.log[k]) >= 0

\* C26 for such calls.
C26_HoldsForWellFormedResponses == WellFormedResponses => RequestContract

\* A call that went through all its attempts on well-formed responses.
C26_Reached ==
    /\ WellFormedResponses
    /\ request.pc = "raised"
    /\ Len(request.log) = MaxAttempts
    /\ request.log[1].status = 429
    /\ Transient(2)

\* The call finds a cache it can use: force_refresh is false and the cache
\* file is a readable document with non-empty data.
CacheUsable ==
    /\ ~cache.force
    /\ cache.before.state = "json"
    /\ GetData(cache.before.data) # "empty"

\* The cached fetch is over.
CacheEnded == cache.pc \in {"returned", "raised"}

\* What C28 says of a cached fetch.
CacheContract ==
    /\ CacheUsable => cache.requests = 0 /\ cache.file = cache.before
    /\ ~CacheUsable /\ cache.pc # "enter" => cache.requests = 1
    /\ cache.write = "ok" =>
          cache.file = [state |-> "json", data |-> cache.response]
    /\ cache.write = "failed" => cache = Parsed(cache)

\* C28 as stated: with a usable cache no request is made and the cache file
\* stays as it was; with force_refresh, or a cache file that is missing,
\* unreadable or empty of data, exactly one _make_request call is made and
\* its response is what a successful write leaves in the cache file; a
\* write that fails changes nothing about how the call ends (it returns
\* whenever the data parses).
C28_CacheThenOneRequest == cache.pc # "none" => CacheContract

\* C28 for cache files that are UTF-8 and responses that UTF-8 can encode.
C28_HoldsForUtf8 ==
    /\ cache.pc # "none"
    /\ cache.before.state # "undecodable"
    /\ cache.error # "UnicodeEncodeError"
    => CacheContract

\* A forced refresh over a usable cache fetched once, could not write the
\* cache, and returned.
C28_Witness ==
    /\ cache.force
    /\ cache.before.state = "json"
    /\ cache.before.data = "valid"
    /\ cache.requests = 1
    /\ cache.write = "failed"
    /\ cache.pc = "returned"

\* The cache was used: the call returned without a request.
C28_ServedFromCache ==
    CacheUsable /\ cache.pc = "returned" /\ cache.requests = 0

\* The sets the command selected, as a set of indices.
Selected == {command.sets_to_upload[k] : k \in DOMAIN command.sets_to_upload}

\* Every record of set sid went out in a batch whose retry sequence ended in
\* success.
AllBatchesUpserted(sid) ==
    /\ command.sets[sid].done = Len(command.sets[sid].batches)
    /\ Len(Concatenated(command.sets[sid].batches)) = command.sets[sid].records

\* What C29 says of the command.
UploadContract ==
    /\ \A sid \in DOMAIN command.sets :
          /\ command.sets[sid].written => AllBatchesUpserted(sid)
          /\ (command.sets[sid].batches # <<>> /\ ~AllBatchesUpserted(sid)) =>
                /\ ~command.sets[sid].written
                /\ command.sets[sid].outcome = "failed"
          /\ (command.sets[sid].already_uploaded /\ ~command.force) =>
                command.sets[sid].batches = <<>>
    /\ command.pc = "summary" =>
          /\ \A sid \in Selected : command.sets[sid].outcome # "none"
          /\ command.uploaded_count + command.skipped_count
                + command.failed_count = Len(command.sets_to_upload)

\* C29 as stated: a set's marker is written only after every batch of the
\* set was upserted; a set with a failed batch gets no marker and counts as
\* failed, and the sets after it are still attempted; a set that has the
\* marker is not uploaded again without --force; at the summary uploaded +
\* skipped + failed is the number of selected sets.
C29_MarkerOnlyAfterUpload == UploadContract

\* C29 for the batch sizes that are at least 1.
C29_HoldsForPositiveBatchSize == command.batch_size >= 1 => UploadContract

\* Of two sets the first failed in its second batch and got no marker, the
\* second was uploaded and marked.
C29_Reached ==
    /\ command.pc = "summary"
    /\ command.batch_size = 1
    /\ Len(command.sets) = 2
    /\ command.sets[1].outcome = "failed"
    /\ command.sets[1].done = 1
    /\ ~command.sets[1].written
    /\ command.sets[2].written
    /\ command.uploaded_count = 1

\* process_standard_set has not raised, and once it has returned there is a
\* record for every node.
Processed ==
    /\ pc # "raised"
    /\ (calls >= 1 /\ pc = "idle") => Len(result) = Len(tree)

\* C30 as stated: process_standard_set succeeds for every standard set the
\* input model accepts, also for a document whose id or valid is None: no
\* validation error is raised and every node gets its record.
C30_EveryAcceptedSetIsProcessed == Processed

\* C30 for the documents that carry both id and valid, and for sets
\* without nodes.
C30_HoldsForFullDocuments ==
    (tree = <<>> \/ (document.id # NoneStr /\ document.valid # NoneStr))
        => Processed

\* A set of MaxNodes nodes with a full document has been processed.
C30_Reached ==
    /\ document.id # NoneStr
    /\ document.valid # NoneStr
    /\ calls = 1
    /\ pc = "idle"
    /\ Len(result) = MaxNodes

=============================================================================
